---- MODULE Spec2Model ----
(***************************************************************************)
(* Client-side localization of the Marln landing page:                     *)
(*   - SimpleLanguageToggle   (localization/simple-toggle.js)              *)
(*   - LocalizationEngine     (localization/core/localization-engine.js)   *)
(*   - LanguageToggle         (localization/components/language-toggle.js) *)
(*   - MarlnLocalizationSystem (localization/index.js)                     *)
(*                                                                         *)
(* JavaScript strings are sequences of tokens: the token "." is the dot    *)
(* that String.split('.') cuts at, every other token is an opaque piece of *)
(* text.  The one-token name <<"constructor">> is the property every       *)
(* object, string and function inherits from its prototype.                *)
(***************************************************************************)
EXTENDS Integers, Sequences, FiniteSets, TLC

(***************************************************************************)
(* Bounds of the key-resolver inputs.                                      *)
(***************************************************************************)
MaxKeyLen == 3
MaxDepth == 2

(***************************************************************************)
(* JavaScript values.                                                      *)
(***************************************************************************)
Str(s) == [t |-> "string", s |-> s]
Obj(m) == [t |-> "object", m |-> m]
Fn == [t |-> "function"]
Null == [t |-> "null"]
Undefined == [t |-> "undefined"]

Dot == "."
ConstructorName == <<"constructor">>

typeof(v) == IF v.t = "null" THEN "object" ELSE v.t

\* ToBoolean: null, undefined and the empty string are falsy.
Truthy(v) ==
    CASE v.t = "null" -> FALSE
      [] v.t = "undefined" -> FALSE
      [] v.t = "string" -> v.s # <<>>
      [] OTHER -> TRUE

\* value[k]: an own property of an object, else what the prototype chain
\* gives: "constructor" on objects, strings and functions, nothing else here.
JsGet(v, k) ==
    CASE v.t = "object" ->
           IF k \in DOMAIN v.m THEN v.m[k]
           ELSE IF k = ConstructorName THEN Fn ELSE Undefined
      [] v.t = "string" -> IF k = ConstructorName THEN Fn ELSE Undefined
      [] v.t = "function" -> IF k = ConstructorName THEN Fn ELSE Undefined
      [] OTHER -> Undefined

\* k in obj (obj an object): own or inherited.
JsIn(k, v) == k \in DOMAIN v.m \/ k = ConstructorName

(***************************************************************************)
(* key.split('.')                                                          *)
(***************************************************************************)
RECURSIVE SplitFrom(_, _, _)
SplitFrom(key, i, cur) ==
    IF i > Len(key) THEN <<cur>>
    ELSE IF key[i] = Dot THEN <<cur>> \o SplitFrom(key, i + 1, <<>>)
    ELSE SplitFrom(key, i + 1, Append(cur, key[i]))

split(key) == SplitFrom(key, 1, <<>>)

(***************************************************************************)
(* LocalizationEngine.getTranslation(key, translations), with a tree given *)
(***************************************************************************)
RECURSIVE EngineWalk(_, _)
EngineWalk(result, keys) ==
    IF keys = <<>> THEN result
    ELSE IF Truthy(result) /\ typeof(result) = "object" /\ JsIn(Head(keys), result)
         THEN EngineWalk(JsGet(result, Head(keys)), Tail(keys))
         ELSE Null

LocalizationEngine_getTranslation(key, trans) ==
    IF ~Truthy(trans) THEN Null ELSE EngineWalk(trans, split(key))

(***************************************************************************)
(* SimpleLanguageToggle.getTranslation(key, language), on translations[language] *)
(***************************************************************************)
RECURSIVE SimpleWalk(_, _)
SimpleWalk(value, keys) ==
    IF keys = <<>> THEN value
    ELSE IF Truthy(value) /\ JsGet(value, Head(keys)) # Undefined
         THEN SimpleWalk(JsGet(value, Head(keys)), Tail(keys))
         ELSE Null

SimpleLanguageToggle_getTranslation(key, tree) == SimpleWalk(tree, split(key))

(***************************************************************************)
(* Inputs of the resolver: every tree of depth <= MaxDepth over two        *)
(* property names and one leaf string, every key of <= MaxKeyLen tokens    *)
(* (so "", "a", "a.b", "a.", ".a", "a.constructor", ...).                  *)
(***************************************************************************)
PropNames == {<<"a">>, <<"b">>}
LeafStrings == {<<"X">>}
KeyAlphabet == {"a", "b", Dot, "constructor"}

RECURSIVE NodesUpTo(_)
MapsOver(nodes) ==
    UNION {[S -> nodes] : S \in SUBSET PropNames}

NodesUpTo(d) ==
    IF d = 0 THEN {Str(s) : s \in LeafStrings}
    ELSE LET below == NodesUpTo(d - 1)
         IN below \cup {Obj(m) : m \in MapsOver(below)}

Trees == {Obj(m) : m \in MapsOver(NodesUpTo(MaxDepth - 1))}

Keys == UNION {[1..n -> KeyAlphabet] : n \in 0..MaxKeyLen}

VARIABLES rTree, rKey, rEngine, rSimple

rvars == <<rTree, rKey, rEngine, rSimple>>

NotRun == [t |-> "notrun"]

(***************************************************************************)
(* DOMHelpers (localization/utils/dom-helpers.js) on one element.  An      *)
(* element is its text content, its attributes (a map from the names of    *)
(* the attributes it carries to their values) and its inline style.        *)
(***************************************************************************)
VARIABLES
    element,     \* the element the state helpers are called on
    stateOps,    \* the state helpers called so far, each with the text it found
    debouncer    \* a function made by debounce, the timers and the clock

hvars == <<element, stateOps, debouncer>>

NoAttributes == [name \in {} |-> ""]

NewElement(text) ==
    [textContent |-> text, attributes |-> NoAttributes,
     style |-> [opacity |-> "", pointerEvents |-> "", color |-> "", borderColor |-> ""]]

setAttribute(el, name, value) ==
    [el EXCEPT !.attributes =
        [n \in DOMAIN el.attributes \cup {name} |->
            IF n = name THEN value ELSE el.attributes[n]]]

removeAttribute(el, name) ==
    [el EXCEPT !.attributes = [n \in DOMAIN el.attributes \ {name} |-> el.attributes[n]]]

hasAttribute(el, name) == name \in DOMAIN el.attributes

\* if (originalText): getAttribute gave a string that is not empty.
OriginalTextKept(el) ==
    /\ hasAttribute(el, "data-original-text")
    /\ el.attributes["data-original-text"] # ""

DOMHelpers_addLoadingState(el, loadingText) ==
    LET e1 == setAttribute(el, "data-loading", "true")
        e2 == setAttribute(e1, "data-original-text", el.textContent)
    IN  [e2 EXCEPT !.textContent = loadingText,
                   !.style.opacity = "0.7",
                   !.style.pointerEvents = "none"]

DOMHelpers_removeLoadingState(el) ==
    LET e1 == removeAttribute(el, "data-loading")
        e2 == IF OriginalTextKept(e1)
              THEN removeAttribute([e1 EXCEPT !.textContent =
                                       e1.attributes["data-original-text"]],
                                   "data-original-text")
              ELSE e1
    IN  [e2 EXCEPT !.style.opacity = "1", !.style.pointerEvents = "auto"]

DOMHelpers_addErrorState(el, errorText) ==
    LET e1 == setAttribute(el, "data-error", "true")
        e2 == setAttribute(e1, "data-original-text", el.textContent)
    IN  [e2 EXCEPT !.textContent = errorText,
                   !.style.color = "#dc3545",
                   !.style.borderColor = "#dc3545"]

DOMHelpers_removeErrorState(el) ==
    LET e1 == removeAttribute(el, "data-error")
        e2 == IF OriginalTextKept(e1)
              THEN removeAttribute([e1 EXCEPT !.textContent =
                                       e1.attributes["data-original-text"]],
                                   "data-original-text")
              ELSE e1
    IN  [e2 EXCEPT !.style.color = "", !.style.borderColor = ""]

(***************************************************************************)
(* DOMHelpers.debounce(func, wait).  timeout is the closure's variable (0  *)
(* while undefined), timers the timers set and not yet run or cleared,     *)
(* each with the arguments its callback closes over; calls and invoked     *)
(* record the calls of the returned function and the invocations of func.  *)
(***************************************************************************)
NewDebouncer(wait) ==
    [wait |-> wait, timeout |-> 0, timers |-> {}, lastId |-> 0, clock |-> 0,
     calls |-> <<>>, invoked |-> <<>>]

clearTimeout(d, id) ==
    [d EXCEPT !.timers = {t \in @ : t.id # id}]

\* setTimeout(later, wait), later closing over args; the id is the result.
setTimeout(d, args) ==
    [d EXCEPT !.lastId = @ + 1,
              !.timers = @ \cup {[id |-> d.lastId + 1, due |-> d.clock + d.wait,
                                  args |-> args]}]

\* executedFunction(...args) without its clearTimeout: every call leaves its
\* own timer running.
DOMHelpers_debounce_executedFunction_NoClear(d, args) ==
    LET d2 == setTimeout(d, args)
    IN  [d2 EXCEPT !.timeout = d2.lastId,
                   !.calls = Append(@, [args |-> args, at |-> d.clock])]

\* executedFunction(...args): clearTimeout(timeout); timeout = setTimeout(later, wait)
DOMHelpers_debounce_executedFunction(d, args) ==
    LET d1 == clearTimeout(d, d.timeout)
        d2 == setTimeout(d1, args)
    IN  [d2 EXCEPT !.timeout = d2.lastId,
                   !.calls = Append(@, [args |-> args, at |-> d.clock])]

\* later(): clearTimeout(timeout); func(...args), run as the callback of timer.
DOMHelpers_debounce_later(d, timer) ==
    LET d1 == clearTimeout([d EXCEPT !.timers = @ \ {timer}], d.timeout)
    IN  [d1 EXCEPT !.invoked = Append(@, [args |-> timer.args, at |-> d.clock])]

HelpersIdle ==
    /\ element = NewElement("")
    /\ stateOps = <<>>
    /\ debouncer = NewDebouncer(0)

(***************************************************************************)
(* Configuration: config/supported-languages.js and config/settings.js.    *)
(* "es" stands for the eight supported codes that have no translation      *)
(* file; "xx" is a code absent from SUPPORTED_LANGUAGES.  The codes asked  *)
(* for from outside are the two with a file and the unsupported one.       *)
(***************************************************************************)
SUPPORTED_LANGUAGES == {"en", "ar", "es"}
RtlLanguages == {"ar"}
getActiveLanguages == {"en", "ar"}
defaultLanguage == "en"
fallbackLanguage == "en"
preloadLanguages == <<"en", "ar">>
cacheExpiry == 3600000
NullLang == "null"
RequestCodes == {"en", "ar", "xx"}

\* SUPPORTED_LANGUAGES[code] taken as a condition: an own key of the registry
\* gives its entry, a name every object inherits ('constructor') gives a
\* function, both truthy; any other code gives undefined.
InheritedName == "constructor"
InRegistryLookup(code) == code \in SUPPORTED_LANGUAGES \/ code = InheritedName

isRTL(code) == code \in RtlLanguages
getLanguageInfo(code) == IF code \in SUPPORTED_LANGUAGES THEN code ELSE "en"

(***************************************************************************)
(* Bounds of the engine runs.                                              *)
(***************************************************************************)
MaxCalls == 1
MaxTicks == 1
MaxActivations == 2
MaxSwitches == 2
TickMs == cacheExpiry

(***************************************************************************)
(* The translation resources languages/en.json and languages/ar.json and   *)
(* the page the engine runs on.                                            *)
(***************************************************************************)
Text(x) == Str(<<x>>)
EnDoc ==
    Obj((<<"title">> :> Text("Hello"))
        @@ (<<"header">> :> Obj(<<"about">> :> Text("About")))
        @@ (<<"common">> :> Obj((<<"namePlaceholder">> :> Text("Name"))
                                @@ (<<"sendMessage">> :> Text("Send")))))
ArDoc ==
    Obj((<<"title">> :> Text("Marhaba"))
        @@ (<<"header">> :> Obj(<<"about">> :> Text("Hawl")))
        @@ (<<"common">> :> Obj((<<"namePlaceholder">> :> Text("Ism"))
                                @@ (<<"sendMessage">> :> Text("Irsal")))))
FileOf(code) == IF code = "ar" THEN ArDoc ELSE EnDoc

\* What fetch + response.json() can end in for a code's resource: the tree,
\* a response that is not ok (a rejected fetch is caught the same way), or a
\* body that does not parse.
FetchOutcomes(code) ==
    IF code \in getActiveLanguages
    THEN {"ok", "notOk", "badJson"}
    ELSE {"notOk"}

StaticText == <<"static">>
PageElements ==
    << [tag |-> "H1", marked |-> TRUE, i18n |-> <<"title">>,
        hasPlaceholder |-> FALSE, selector |-> ""],
       [tag |-> "INPUT", marked |-> TRUE, i18n |-> <<"common", Dot, "namePlaceholder">>,
        hasPlaceholder |-> TRUE, selector |-> "input[name=\"your-name\"]"],
       [tag |-> "DIV", marked |-> TRUE, i18n |-> <<"header">>,
        hasPlaceholder |-> FALSE, selector |-> ""],
       [tag |-> "A", marked |-> FALSE, i18n |-> <<>>,
        hasPlaceholder |-> FALSE, selector |-> "#menu-item-680 a"],
       [tag |-> "INPUT", marked |-> FALSE, i18n |-> <<>>,
        hasPlaceholder |-> FALSE, selector |-> "input[type=\"submit\"]"] >>

\* String(value), as an assignment to textContent or an attribute makes it.
DomString(v) ==
    CASE v.t = "string" -> v.s
      [] v.t = "object" -> <<"[object Object]">>
      [] v.t = "function" -> <<"function () { [native code] }">>
      [] OTHER -> <<v.t>>

NewDocument ==
    [lang |-> "en", dir |-> "", htmlClass |-> {}, bodyClass |-> {},
     hreflang |-> "en", metaLanguage |-> "en",
     mobileMenu |-> [direction |-> "", textAlign |-> ""],
     languageListeners |-> 0,
     els |-> [i \in DOMAIN PageElements |->
                [textContent |-> StaticText, placeholder |-> <<>>, value |-> <<>>,
                 parsed |-> FALSE]]]

(***************************************************************************)
(* LocalizationEngine: the synchronous methods, as functions of the world  *)
(* w = [engine, system, doc, storage, frames, microtasks, ...].            *)
(* A method that can throw returns [w, threw].                             *)
(***************************************************************************)
LangClass(code) == <<"lang-" \o code>>

LocalizationEngine_updateHTMLAttributes(w) ==
    LET cur == w.engine.currentLanguage
        prev == w.engine.previousLanguage
        d1 == IF isRTL(cur)
              THEN [w.doc EXCEPT !.lang = cur, !.dir = "rtl",
                                 !.htmlClass = @ \cup {<<"rtl">>},
                                 !.bodyClass = @ \cup {<<"rtl">>}]
              ELSE [w.doc EXCEPT !.lang = cur, !.dir = "ltr",
                                 !.htmlClass = @ \ {<<"rtl">>},
                                 !.bodyClass = @ \ {<<"rtl">>}]
        d2 == [d1 EXCEPT !.htmlClass = @ \cup {LangClass(cur)}]
    IN  [w EXCEPT !.doc =
            IF prev # NullLang
            THEN [d2 EXCEPT !.htmlClass = @ \ {LangClass(prev)}]
            ELSE d2]

\* One element of the [data-i18n] scan.  parsed tells whether the element's
\* content was set as markup (innerHTML) or as text (textContent).
EngineMarkerWrite(el, st, translations) ==
    LET translation == LocalizationEngine_getTranslation(el.i18n, translations)
    IN  IF ~el.marked \/ ~Truthy(translation) THEN st
        ELSE IF el.tag \in {"INPUT", "TEXTAREA"}
             THEN IF el.hasPlaceholder
                  THEN [st EXCEPT !.placeholder = DomString(translation)]
                  ELSE st
             ELSE [st EXCEPT !.textContent = DomString(translation), !.parsed = FALSE]

LocalizationEngine_updateContentWithDataAttributes(w, translations) ==
    [w EXCEPT !.doc.els =
        [i \in DOMAIN PageElements |->
            EngineMarkerWrite(PageElements[i], w.doc.els[i], translations)]]

\* The selector tables of updateHeaderNavigation, updateMobileNavigation,
\* updateServicesDropdown, updateCompanyDropdown and updateContactForm.
FixedTargets ==
    << [selector |-> "#menu-item-680 a", key |-> <<"header", Dot, "about">>, attribute |-> "textContent"],
       [selector |-> "#menu-item-666 > a", key |-> <<"header", Dot, "services">>, attribute |-> "textContent"],
       [selector |-> "#menu-item-company > a", key |-> <<"header", Dot, "company">>, attribute |-> "textContent"],
       [selector |-> "#menu-item-contact a", key |-> <<"header", Dot, "contact">>, attribute |-> "textContent"],
       [selector |-> "#menu-item-1680 a", key |-> <<"header", Dot, "insights">>, attribute |-> "textContent"],
       [selector |-> ".mobile-menu-nav .mobile-menu-link[href*=\"about-us\"]", key |-> <<"header", Dot, "about">>, attribute |-> "textContent"],
       [selector |-> ".mobile-menu-nav .mobile-dropdown-toggle[data-dropdown=\"services\"] span", key |-> <<"header", Dot, "services">>, attribute |-> "textContent"],
       [selector |-> ".mobile-menu-nav .mobile-dropdown-toggle[data-dropdown=\"company\"] span", key |-> <<"header", Dot, "company">>, attribute |-> "textContent"],
       [selector |-> ".mobile-menu-nav .mobile-menu-link.contact-scroll-btn", key |-> <<"header", Dot, "contact">>, attribute |-> "textContent"],
       [selector |-> ".services-dropdown li a:0", key |-> <<"dropdown", Dot, "services", Dot, "aiConsulting">>, attribute |-> "textContent"],
       [selector |-> ".services-dropdown li a:1", key |-> <<"dropdown", Dot, "services", Dot, "engineering">>, attribute |-> "textContent"],
       [selector |-> ".services-dropdown li a:2", key |-> <<"dropdown", Dot, "services", Dot, "dataAnalytics">>, attribute |-> "textContent"],
       [selector |-> ".services-dropdown li a:3", key |-> <<"dropdown", Dot, "services", Dot, "corporateTraining">>, attribute |-> "textContent"],
       [selector |-> ".company-dropdown li a:0", key |-> <<"dropdown", Dot, "company", Dot, "profile">>, attribute |-> "textContent"],
       [selector |-> ".company-dropdown li a:1", key |-> <<"dropdown", Dot, "company", Dot, "csr">>, attribute |-> "textContent"],
       [selector |-> ".company-dropdown li a:2", key |-> <<"dropdown", Dot, "company", Dot, "partners">>, attribute |-> "textContent"],
       [selector |-> ".company-dropdown li a:3", key |-> <<"dropdown", Dot, "company", Dot, "industry">>, attribute |-> "textContent"],
       [selector |-> "input[name=\"your-name\"]", key |-> <<"common", Dot, "namePlaceholder">>, attribute |-> "placeholder"],
       [selector |-> "input[name=\"your-email\"]", key |-> <<"common", Dot, "emailPlaceholder">>, attribute |-> "placeholder"],
       [selector |-> "textarea[name=\"your-message\"]", key |-> <<"common", Dot, "messagePlaceholder">>, attribute |-> "placeholder"],
       [selector |-> "input[type=\"submit\"]", key |-> <<"common", Dot, "sendMessage">>, attribute |-> "value"] >>

\* document.querySelector(selector): the first element matching, 0 if none.
querySelector(selector) ==
    LET hits == {i \in DOMAIN PageElements : PageElements[i].selector = selector}
    IN  IF hits = {} THEN 0 ELSE CHOOSE i \in hits : \A j \in hits : i <= j

\* One row of a selector table.
FixedTargetWrite(els, row, translations) ==
    LET i == querySelector(row.selector)
        translation == LocalizationEngine_getTranslation(row.key, translations)
    IN  IF i = 0 \/ ~Truthy(translation) THEN els
        ELSE CASE row.attribute = "textContent" ->
                    [els EXCEPT ![i].textContent = DomString(translation),
                                ![i].parsed = FALSE]
               [] row.attribute = "placeholder" ->
                    [els EXCEPT ![i].placeholder = DomString(translation)]
               [] OTHER ->
                    [els EXCEPT ![i].value = DomString(translation)]

RECURSIVE FixedTargetsFrom(_, _, _)
FixedTargetsFrom(els, n, translations) ==
    IF n > Len(FixedTargets) THEN els
    ELSE FixedTargetsFrom(FixedTargetWrite(els, FixedTargets[n], translations),
                          n + 1, translations)

\* updateNavigation followed by updateForms.
LocalizationEngine_updateNavigationAndForms(w, translations) ==
    [w EXCEPT !.doc.els = FixedTargetsFrom(@, 1, translations)]

LocalizationEngine_updateMetaTags(w) ==
    [w EXCEPT !.doc.hreflang = w.engine.currentLanguage,
              !.doc.metaLanguage = w.engine.currentLanguage]

LocalizationEngine_updateRTL(w) ==
    IF isRTL(getLanguageInfo(w.engine.currentLanguage))
    THEN [w EXCEPT !.doc.htmlClass = @ \cup {<<"rtl">>},
                   !.doc.bodyClass = @ \cup {<<"rtl">>},
                   !.doc.mobileMenu = [direction |-> "rtl", textAlign |-> "right"]]
    ELSE [w EXCEPT !.doc.htmlClass = @ \ {<<"rtl">>},
                   !.doc.bodyClass = @ \ {<<"rtl">>},
                   !.doc.mobileMenu = [direction |-> "ltr", textAlign |-> "left"]]

(***************************************************************************)
(* Persistence: localStorage 'marln-language', cookie 'marln-lang', URL    *)
(* parameter 'lang'.  "none" is an absent entry.  blocked holds the        *)
(* channels whose write throws in this browser (localStorage.setItem on a  *)
(* full or disabled store, document.cookie and history.replaceState in a   *)
(* sandboxed document); saveLanguage makes the three writes in one try.    *)
(***************************************************************************)
NoValue == "none"

LocalizationEngine_getSavedLanguage(w) ==
    IF w.storage.localStorage # NoValue /\ InRegistryLookup(w.storage.localStorage)
    THEN w.storage.localStorage
    ELSE IF InRegistryLookup(w.storage.cookie)
    THEN w.storage.cookie
    ELSE IF w.storage.url # NoValue /\ InRegistryLookup(w.storage.url)
    THEN w.storage.url
    ELSE NoValue

LocalizationEngine_saveLanguage(w, languageCode) ==
    IF "localStorage" \in w.storage.blocked THEN w
    ELSE IF "cookie" \in w.storage.blocked
    THEN [w EXCEPT !.storage.localStorage = languageCode]
    ELSE IF "url" \in w.storage.blocked
    THEN [w EXCEPT !.storage.localStorage = languageCode,
                   !.storage.cookie = languageCode]
    ELSE [w EXCEPT !.storage.localStorage = languageCode,
                   !.storage.cookie = languageCode,
                   !.storage.url = languageCode]

(***************************************************************************)
(* Event system.  A listener is [throws]: what its callback does when      *)
(* called.  emit calls each listener of the event, in order, each in a     *)
(* try/catch; called is the listeners called, threw whether emit threw.    *)
(***************************************************************************)
ListenersOf(eventListeners, event) ==
    IF event \in DOMAIN eventListeners THEN eventListeners[event] ELSE <<>>

on(eventListeners, event, callback) ==
    (event :> Append(ListenersOf(eventListeners, event), callback)) @@ eventListeners

\* listeners.forEach(callback => { callback(data); }) without the try/catch:
\* the first callback that throws ends the loop and emit throws.
RECURSIVE CallEachNoCatch(_, _, _)
CallEachNoCatch(listeners, i, called) ==
    IF i > Len(listeners) THEN [called |-> called, threw |-> FALSE]
    ELSE IF listeners[i].throws THEN [called |-> Append(called, i), threw |-> TRUE]
    ELSE CallEachNoCatch(listeners, i + 1, Append(called, i))

emit_NoCatch(eventListeners, event) ==
    CallEachNoCatch(ListenersOf(eventListeners, event), 1, <<>>)

\* listeners.forEach(callback => { try { callback(data); } catch (error) {...} })
RECURSIVE CallEach(_, _, _)
CallEach(listeners, i, called) ==
    IF i > Len(listeners) THEN [called |-> called, threw |-> FALSE]
    ELSE CallEach(listeners, i + 1, Append(called, i))

emit(eventListeners, event) ==
    CallEach(ListenersOf(eventListeners, event), 1, <<>>)

\* What an emit call did: the listeners it called, in the order of the
\* calls, and whether it threw.
Delivery(emitter, event, r) ==
    [emitter |-> emitter, event |-> event, called |-> r.called, threw |-> r.threw]

\* engine.emit(event, data); w.notified keeps the last languageChanged payload.
LocalizationEngine_emit(w, event, data) ==
    LET r == emit(w.engine.eventListeners, event)
        w1 == [w EXCEPT !.delivered = Append(@, Delivery("engine", event, r))]
    IN  [w |-> IF event = "languageChanged"
               THEN [w1 EXCEPT !.notified = data]
               ELSE w1,
         threw |-> r.threw]

LocalizationEngine_handleError(w) ==
    LocalizationEngine_emit(w, "error", [from |-> NullLang, to |-> NullLang])

MarlnLocalizationSystem_emit(w, event) ==
    LET r == emit(w.system.eventListeners, event)
    IN  [w |-> [w EXCEPT !.delivered = Append(@, Delivery("system", event, r))],
         threw |-> r.threw]

MarlnLocalizationSystem_handleError(w) ==
    MarlnLocalizationSystem_emit(w, "error")

\* updatePage taking the navigation and form texts from the tree of the
\* language shown before, where it is loaded.
LocalizationEngine_updatePage_TwoTrees(w) ==
    LET cur == w.engine.currentLanguage
        prev == w.engine.previousLanguage
    IN  IF cur \notin DOMAIN w.engine.translations
        THEN LET r == LocalizationEngine_handleError(w)
             IN  [w |-> IF r.threw THEN [r.w EXCEPT !.escaped = @ \cup {"updatePage"}]
                        ELSE r.w,
                  threw |-> r.threw]
        ELSE LET translations == w.engine.translations[cur]
                 other == IF prev \in DOMAIN w.engine.translations
                          THEN w.engine.translations[prev] ELSE translations
                 w1 == LocalizationEngine_updateHTMLAttributes(w)
                 w2 == LocalizationEngine_updateContentWithDataAttributes(w1, translations)
                 w3 == LocalizationEngine_updateNavigationAndForms(w2, other)
                 w4 == LocalizationEngine_updateMetaTags(w3)
             IN  [w |-> [w4 EXCEPT !.applied = cur], threw |-> FALSE]

(***************************************************************************)
(* LocalizationEngine.updatePage: the body runs without suspending; the    *)
(* missing tree is thrown and caught inside.                               *)
(***************************************************************************)
LocalizationEngine_updatePage(w) ==
    LET cur == w.engine.currentLanguage
    IN  IF cur \notin DOMAIN w.engine.translations
        THEN LET r == LocalizationEngine_handleError(w)
             IN  [w |-> IF r.threw THEN [r.w EXCEPT !.escaped = @ \cup {"updatePage"}]
                        ELSE r.w,
                  threw |-> r.threw]
        ELSE LET translations == w.engine.translations[cur]
                 w1 == LocalizationEngine_updateHTMLAttributes(w)
                 w2 == LocalizationEngine_updateContentWithDataAttributes(w1, translations)
                 w3 == LocalizationEngine_updateNavigationAndForms(w2, translations)
                 w4 == LocalizationEngine_updateMetaTags(w3)
             IN  [w |-> [w4 EXCEPT !.applied = cur], threw |-> FALSE]

(***************************************************************************)
(* Asynchronous calls.  A frame is one call of an async function that has  *)
(* suspended at an await: [id, fn, code, pc, parent, fetches].  parent is  *)
(* the frame awaiting it, 0 for a call made from outside, -1 for a load    *)
(* under Promise.allSettled.  A settled promise resumes its awaiter        *)
(* through the microtask queue, in order, with [to, outcome, value]: value *)
(* is the tree a load returned.  The other fields only observe: requested  *)
(* is the argument the call was made with (code moves on to the fallback   *)
(* in a retrying load), before is this.currentLanguage at the moment       *)
(* setLanguage was called, loaded the value its awaited load resolved      *)
(* with, and from in a message the load that settled.  w.settled is how    *)
(* the last call made from outside ended, w.escaped the orchestrator calls *)
(* that threw or rejected.                                                 *)
(***************************************************************************)
UsedIds(w) ==
    {f.id : f \in w.frames} \cup {w.microtasks[i].to : i \in DOMAIN w.microtasks}

FreshId(w) == CHOOSE i \in 1..(Cardinality(UsedIds(w)) + 1) :
                  /\ i \notin UsedIds(w)
                  /\ \A j \in 1..(i - 1) : j \in UsedIds(w)

Frame(id, fn, code, pc, parent) ==
    [id |-> id, fn |-> fn, code |-> code, pc |-> pc, parent |-> parent, fetches |-> 0,
     requested |-> code, before |-> NullLang, loaded |-> Undefined]

PutFrame(w, f) ==
    [w EXCEPT !.frames = {g \in @ : g.id # f.id} \cup {f}]

\* The call f ends: "ok" resolves its promise with value, "throw" rejects it.
Complete(w, f, outcome, value) ==
    LET w1 == [w EXCEPT !.frames = {g \in @ : g.id # f.id}]
        w2 == IF outcome = "throw" /\ f.fn # "loadLanguage"
              THEN [w1 EXCEPT !.escaped = @ \cup {f.fn}]
              ELSE w1
    IN  IF f.parent > 0
        THEN [w2 EXCEPT !.microtasks =
                 Append(@, [to |-> f.parent, outcome |-> outcome, value |-> value,
                            from |-> [fn |-> f.fn, requested |-> f.requested,
                                      code |-> f.code]])]
        ELSE IF f.parent = 0
        THEN [w2 EXCEPT !.settled = [fn |-> f.fn, outcome |-> outcome, value |-> value,
                                     requested |-> f.requested, code |-> f.code,
                                     fetches |-> f.fetches]]
        ELSE w2

\* `await x` on a promise that is already settled: the caller goes on in a
\* later microtask.
Await(w, f) ==
    [PutFrame(w, f) EXCEPT !.microtasks =
        Append(@, [to |-> f.id, outcome |-> "ok", value |-> Undefined,
                   from |-> [fn |-> f.fn, requested |-> f.requested, code |-> f.code]])]

(***************************************************************************)
(* LocalizationEngine.loadLanguage(languageCode), up to its first await or *)
(* its return.  f is the call's frame; the fallback retry                  *)
(* `return this.loadLanguage(fallbackLanguage)` continues in the same f.   *)
(***************************************************************************)
\* The cache check without the expiry test: an entry is used whatever its age.
CacheFresh_NoExpiry(w, languageCode) ==
    languageCode \in DOMAIN w.engine.cache

CacheFresh(w, languageCode) ==
    /\ languageCode \in DOMAIN w.engine.cache
    /\ w.now - w.engine.cache[languageCode].timestamp < cacheExpiry

LocalizationEngine_loadLanguage(w, f, languageCode) ==
    IF CacheFresh(w, languageCode)
    THEN Complete([w EXCEPT !.engine.translations =
                                (languageCode :> w.engine.cache[languageCode].data) @@ @],
                  [f EXCEPT !.code = languageCode], "ok",
                  w.engine.cache[languageCode].data)
    ELSE PutFrame(w, [f EXCEPT !.code = languageCode, !.pc = "fetch", !.fetches = @ + 1])

\* loadLanguage without the retry: the catch rethrows whatever the code.
LocalizationEngine_loadLanguage_settled_NoRetry(w, f, outcome) ==
    IF outcome = "ok"
    THEN Complete([w EXCEPT !.engine.cache =
                                (f.code :> [data |-> FileOf(f.code), timestamp |-> w.now]) @@ @,
                            !.engine.translations = (f.code :> FileOf(f.code)) @@ @],
                  f, "ok", FileOf(f.code))
    ELSE Complete(w, f, "throw", Undefined)

\* loadLanguage filing the tree it fetched under the code the caller asked
\* for, which after a fallback retry is not the code of the file.
LocalizationEngine_loadLanguage_settled_StoreRequested(w, f, outcome) ==
    IF outcome = "ok"
    THEN Complete([w EXCEPT !.engine.cache =
                                (f.requested :> [data |-> FileOf(f.code), timestamp |-> w.now]) @@ @,
                            !.engine.translations = (f.requested :> FileOf(f.code)) @@ @],
                  f, "ok", FileOf(f.code))
    ELSE IF f.code # fallbackLanguage
    THEN LocalizationEngine_loadLanguage(w, f, fallbackLanguage)
    ELSE Complete(w, f, "throw", Undefined)

\* The rest of loadLanguage once fetch and response.json() have settled.
LocalizationEngine_loadLanguage_settled(w, f, outcome) ==
    IF outcome = "ok"
    THEN Complete([w EXCEPT !.engine.cache =
                                (f.code :> [data |-> FileOf(f.code), timestamp |-> w.now]) @@ @,
                            !.engine.translations = (f.code :> FileOf(f.code)) @@ @],
                  f, "ok", FileOf(f.code))
    ELSE IF f.code # fallbackLanguage
    THEN LocalizationEngine_loadLanguage(w, f, fallbackLanguage)
    ELSE Complete(w, f, "throw", Undefined)

(***************************************************************************)
(* LocalizationEngine.setLanguage(languageCode)                            *)
(***************************************************************************)
\* catch (error) { this.handleError(error); this.currentLanguage = this.previousLanguage; }
LocalizationEngine_setLanguage_catch(w, f) ==
    LET r == LocalizationEngine_handleError(w)
    IN  IF r.threw THEN Complete(r.w, f, "throw", Undefined)
        ELSE Complete([r.w EXCEPT !.engine.currentLanguage = r.w.engine.previousLanguage],
                      f, "ok", Undefined)

\* await this.updatePage(): the page is updated now, the call goes on in a
\* later microtask.
LocalizationEngine_setLanguage_update(w, f) ==
    LET r == LocalizationEngine_updatePage(w)
    IN  IF r.threw THEN LocalizationEngine_setLanguage_catch(r.w, f)
        ELSE Await(r.w, [f EXCEPT !.pc = "awaitUpdate"])

\* updateRTL, saveLanguage, emit('languageChanged').
LocalizationEngine_setLanguage_tail(w, f) ==
    LET w1 == LocalizationEngine_updateRTL(w)
        w2 == LocalizationEngine_saveLanguage(w1, f.code)
        r == LocalizationEngine_emit(w2, "languageChanged",
                 [from |-> w2.engine.previousLanguage, to |-> f.code])
    IN  IF r.threw THEN LocalizationEngine_setLanguage_catch(r.w, f)
        ELSE Complete(r.w, f, "ok", Undefined)

\* From the call to the first await (or to the return).
LocalizationEngine_setLanguage(w, languageCode, parent) ==
    LET f == [Frame(FreshId(w), "setLanguage", languageCode, "awaitLoad", parent)
                EXCEPT !.before = w.engine.currentLanguage]
    IN  IF ~InRegistryLookup(languageCode)
        THEN LocalizationEngine_setLanguage_catch(w, f)
        ELSE LET w1 == [w EXCEPT !.engine.previousLanguage = w.engine.currentLanguage,
                                 !.engine.currentLanguage = languageCode]
                 wf == PutFrame(w1, f)
             IN  IF languageCode \notin DOMAIN w1.engine.translations
                 THEN LocalizationEngine_loadLanguage(wf,
                          Frame(FreshId(wf), "loadLanguage", languageCode, "start", f.id),
                          languageCode)
                 ELSE LocalizationEngine_setLanguage_update(w1, f)

(***************************************************************************)
(* LocalizationEngine.init()                                               *)
(***************************************************************************)
LocalizationEngine_init_catch(w, f) ==
    LET r == LocalizationEngine_handleError(w)
    IN  Complete(r.w, f, IF r.threw THEN "throw" ELSE "ok", Undefined)

\* this.preloadLanguages(PERFORMANCE_SETTINGS.loading.preload), not awaited:
\* every load starts now, under Promise.allSettled.
RECURSIVE LocalizationEngine_preloadLanguages(_, _)
LocalizationEngine_preloadLanguages(w, n) ==
    IF n > Len(preloadLanguages) THEN w
    ELSE LocalizationEngine_preloadLanguages(
             LocalizationEngine_loadLanguage(w,
                 Frame(FreshId(w), "loadLanguage", preloadLanguages[n], "start", -1),
                 preloadLanguages[n]),
             n + 1)

\* preloadLanguages, setupEventListeners, initializeRTL, isInitialized, emit('ready').
LocalizationEngine_init_finish(w, f) ==
    LET w1 == LocalizationEngine_preloadLanguages(w, 1)
        w2 == [w1 EXCEPT !.doc.languageListeners = @ + 1]
        w3 == IF isRTL(w2.engine.currentLanguage) THEN LocalizationEngine_updateRTL(w2) ELSE w2
        w4 == [w3 EXCEPT !.engine.isInitialized = TRUE]
        r == LocalizationEngine_emit(w4, "ready", [from |-> NullLang, to |-> NullLang])
    IN  IF r.threw THEN LocalizationEngine_init_catch(r.w, f)
        ELSE Complete(r.w, f, "ok", Undefined)

\* After `await this.loadLanguage(this.currentLanguage)`.
LocalizationEngine_init_afterLoad(w, f) ==
    LET savedLanguage == LocalizationEngine_getSavedLanguage(w)
    IN  IF savedLanguage # NoValue /\ savedLanguage # w.engine.currentLanguage
        THEN LocalizationEngine_setLanguage(PutFrame(w, [f EXCEPT !.pc = "awaitSet"]),
                                            savedLanguage, f.id)
        ELSE LocalizationEngine_init_finish(w, f)

LocalizationEngine_init(w, parent) ==
    LET f == Frame(FreshId(w), "init", w.engine.currentLanguage, "awaitLoad", parent)
        wf == PutFrame(w, f)
    IN  LocalizationEngine_loadLanguage(wf,
            Frame(FreshId(wf), "loadLanguage", w.engine.currentLanguage, "start", f.id),
            w.engine.currentLanguage)

\* The constructor with handleClick bound the way init, render and
\* updateLanguage are bound on the lines before it: this.handleClick.bind(this).
LanguageToggle_constructor_Bound ==
    [threw |-> FALSE]

(***************************************************************************)
(* LanguageToggle: the constructor evaluates                               *)
(* this.handleClick.handleClick.bind(this); this.handleClick is the method *)
(* (a function), which has no property handleClick, so .bind is read from  *)
(* undefined and the constructor throws a TypeError.                       *)
(***************************************************************************)
LanguageToggle_constructor ==
    [threw |-> JsGet(Fn, <<"handleClick">>) = Undefined]

\* The widget as the constructor's assignments leave it: currentLanguage.
LanguageToggle_currentLanguage == "en"

\* The event a transition of the widget raises: toggleLanguage calls
\* updateLanguage, which emits 'languageUpdated'.
LanguageToggle_toggleLanguage_event == "languageUpdated"

(***************************************************************************)
(* MarlnLocalizationSystem                                                 *)
(***************************************************************************)
\* connectComponents: the toggle's event the system answers with
\* engine.setLanguage(data.to).
MarlnLocalizationSystem_connectComponents_event == "languageChanged"

MarlnLocalizationSystem_catch(w, f) ==
    LET r == MarlnLocalizationSystem_handleError(w)
    IN  Complete(r.w, f, IF r.threw THEN "throw" ELSE "ok", Undefined)

MarlnLocalizationSystem_init(w) ==
    LET f == Frame(FreshId(w), "system.init", "", "awaitEngineInit", 0)
    IN  LocalizationEngine_init(PutFrame([w EXCEPT !.system.engine = TRUE], f), f.id)

\* After `await this.engine.init()`: new LanguageToggle(...), toggle.init(),
\* connectComponents(), setupGlobalEvents(), isInitialized, emit('ready').
\* toggle.init() renders the widget with its own currentLanguage and emits
\* its 'ready' before connectComponents has subscribed anything to it; the
\* engine has emitted its 'ready' and 'languageChanged' before that too.
MarlnLocalizationSystem_init_afterEngine(w, f) ==
    IF LanguageToggle_constructor.threw
    THEN MarlnLocalizationSystem_catch(w, f)
    ELSE LET r == MarlnLocalizationSystem_emit(
                      [w EXCEPT !.system.toggle = TRUE,
                                !.system.toggleLanguage = LanguageToggle_currentLanguage,
                                !.system.isInitialized = TRUE],
                      "ready")
         IN  Complete(r.w, f, "ok", Undefined)

\* The system answering the end of the engine's switch with another switch
\* of the engine to the same code: the handlers feeding back.
MarlnLocalizationSystem_setLanguage_tail_Again(w, f) ==
    LocalizationEngine_setLanguage(PutFrame(w, f), f.code, f.id)

\* if (this.toggle) this.toggle.setLanguage(languageCode); emit('languageSet').
MarlnLocalizationSystem_setLanguage_tail(w, f) ==
    LET w1 == IF w.system.toggle
              THEN [w EXCEPT !.system.toggleLanguage = f.code]
              ELSE w
        r == MarlnLocalizationSystem_emit(w1, "languageSet")
    IN  IF r.threw THEN MarlnLocalizationSystem_catch(r.w, f)
        ELSE Complete(r.w, f, "ok", Undefined)

MarlnLocalizationSystem_setLanguage(w, languageCode) ==
    LET f == Frame(FreshId(w), "system.setLanguage", languageCode, "awaitEngineSet", 0)
    IN  IF ~InRegistryLookup(languageCode)
        THEN MarlnLocalizationSystem_catch(w, f)
        ELSE IF w.system.engine
        THEN LocalizationEngine_setLanguage(PutFrame(w, f), languageCode, f.id)
        ELSE MarlnLocalizationSystem_setLanguage_tail(w, f)

MarlnLocalizationSystem_refreshLanguageState(w) ==
    LET f == Frame(FreshId(w), "system.refreshLanguageState", "", "awaitUpdate", 0)
    IN  IF w.system.engine
        THEN LET r == LocalizationEngine_updatePage(w)
             IN  IF r.threw THEN MarlnLocalizationSystem_catch(r.w, f)
                 ELSE Await(r.w, f)
        ELSE w

(***************************************************************************)
(* Resuming the frame a settled promise was awaited by.                    *)
(***************************************************************************)
Resume(w, m) ==
    LET f == CHOOSE g \in w.frames : g.id = m.to
    IN  CASE f.fn = "setLanguage" /\ f.pc = "awaitLoad" ->
               IF m.outcome = "ok"
               THEN LocalizationEngine_setLanguage_update(w, [f EXCEPT !.loaded = m.value])
               ELSE LocalizationEngine_setLanguage_catch(w, f)
          [] f.fn = "setLanguage" /\ f.pc = "awaitUpdate" ->
               LocalizationEngine_setLanguage_tail(w, f)
          [] f.fn = "init" /\ f.pc = "awaitLoad" ->
               IF m.outcome = "ok" THEN LocalizationEngine_init_afterLoad(w, f)
               ELSE LocalizationEngine_init_catch(w, f)
          [] f.fn = "init" /\ f.pc = "awaitSet" ->
               IF m.outcome = "ok" THEN LocalizationEngine_init_finish(w, f)
               ELSE LocalizationEngine_init_catch(w, f)
          [] f.fn = "system.init" ->
               IF m.outcome = "ok" THEN MarlnLocalizationSystem_init_afterEngine(w, f)
               ELSE MarlnLocalizationSystem_catch(w, f)
          [] f.fn = "system.setLanguage" ->
               IF m.outcome = "ok" THEN MarlnLocalizationSystem_setLanguage_tail(w, f)
               ELSE MarlnLocalizationSystem_catch(w, f)
          [] OTHER -> Complete(w, f, "ok", Undefined)

EmptyMap == [x \in {} |-> x]

(***************************************************************************)
(* SimpleLanguageToggle.  sw = [simple, page, preference, dispatched,      *)
(* uncaught]: the object, the document it works on, the localStorage entry *)
(* 'marln_language_preference', the languageChanged events dispatched on   *)
(* the document, and the handlers an exception escaped from.  A method     *)
(* that can throw returns [sw, threw].                                     *)
(***************************************************************************)
possiblePaths ==
    <<"./localization/languages/", "/localization/languages/",
      "../localization/languages/", "../../localization/languages/">>

\* What the two fetches under one path end in: both documents, the English
\* one only (ar.json not ok, or failing), or none.
PathOutcomes == {"both", "enOnly", "none"}

\* The elements a page may carry: text markers on a leaf key, on the key of
\* a section and on a key that is in no tree, a text marker on an input
\* with a placeholder, a placeholder marker and a value marker.
SimpleElements ==
    << [marker |-> "data-i18n", key |-> <<"title">>, hasPlaceholder |-> FALSE],
       [marker |-> "data-i18n", key |-> <<"common", Dot, "namePlaceholder">>,
        hasPlaceholder |-> TRUE],
       [marker |-> "data-i18n", key |-> <<"header">>, hasPlaceholder |-> FALSE],
       [marker |-> "data-i18n", key |-> <<"footer", Dot, "note">>, hasPlaceholder |-> FALSE],
       [marker |-> "data-i18n-placeholder", key |-> <<"common", Dot, "namePlaceholder">>,
        hasPlaceholder |-> TRUE],
       [marker |-> "data-i18n-value", key |-> <<"common", Dot, "sendMessage">>,
        hasPlaceholder |-> FALSE] >>

NoButton ==
    [exists |-> FALSE, currentLang |-> "", slideRight |-> FALSE,
     options |-> <<{}, {}>>, listeners |-> 0]

SimpleLanguageToggle_getStoredLanguage(preference) ==
    IF preference = "ar" THEN "ar" ELSE "en"

SimpleLanguageToggle_saveLanguagePreference(sw, language) ==
    [sw EXCEPT !.preference = language]

\* translation.includes('<') && translation.includes('>')
HasMarkup(s) == (\E i \in DOMAIN s : s[i] = "<") /\ (\E i \in DOMAIN s : s[i] = ">")

\* SimpleTextMarkerWrite appending to the element's text instead of
\* replacing it.
SimpleTextMarkerWrite_Append(el, st, translation) ==
    IF ~Truthy(translation) THEN [st |-> st, threw |-> FALSE]
    ELSE IF el.hasPlaceholder
    THEN [st |-> [st EXCEPT !.placeholder = DomString(translation)], threw |-> FALSE]
    ELSE IF translation.t # "string" THEN [st |-> st, threw |-> TRUE]
    ELSE [st |-> [st EXCEPT !.textContent = @ \o translation.s,
                            !.parsed = HasMarkup(translation.s)],
          threw |-> FALSE]

\* One element of the [data-i18n] scan; translation.includes throws a
\* TypeError when the translation is not a string.
SimpleTextMarkerWrite(el, st, translation) ==
    IF ~Truthy(translation) THEN [st |-> st, threw |-> FALSE]
    ELSE IF el.hasPlaceholder
    THEN [st |-> [st EXCEPT !.placeholder = DomString(translation)], threw |-> FALSE]
    ELSE IF translation.t # "string" THEN [st |-> st, threw |-> TRUE]
    ELSE [st |-> [st EXCEPT !.textContent = translation.s,
                            !.parsed = HasMarkup(translation.s)],
          threw |-> FALSE]

RECURSIVE SimpleTextMarkersFrom(_, _, _, _)
SimpleTextMarkersFrom(els, present, n, tree) ==
    IF n > Len(SimpleElements) THEN [els |-> els, threw |-> FALSE]
    ELSE IF n \notin present \/ SimpleElements[n].marker # "data-i18n"
    THEN SimpleTextMarkersFrom(els, present, n + 1, tree)
    ELSE LET r == SimpleTextMarkerWrite(SimpleElements[n], els[n],
                      SimpleLanguageToggle_getTranslation(SimpleElements[n].key, tree))
         IN  IF r.threw THEN [els |-> els, threw |-> TRUE]
             ELSE SimpleTextMarkersFrom([els EXCEPT ![n] = r.st], present, n + 1, tree)

\* The [data-i18n-placeholder] and [data-i18n-value] scans.
SimpleAttributeMarkerWrite(el, st, translation) ==
    IF ~Truthy(translation) THEN st
    ELSE IF el.marker = "data-i18n-placeholder"
    THEN [st EXCEPT !.placeholder = DomString(translation)]
    ELSE IF el.marker = "data-i18n-value"
    THEN [st EXCEPT !.value = DomString(translation)]
    ELSE st

SimpleLanguageToggle_applyTranslations(sw, language) ==
    IF language \notin DOMAIN sw.simple.translations
    THEN [sw |-> sw, threw |-> FALSE]
    ELSE LET tree == sw.simple.translations[language]
             r == SimpleTextMarkersFrom(sw.page.els, sw.page.present, 1, tree)
         IN  IF DOMAIN tree.m = {} THEN [sw |-> sw, threw |-> FALSE]
             ELSE IF r.threw THEN [sw |-> [sw EXCEPT !.page.els = r.els], threw |-> TRUE]
             ELSE [sw |-> [sw EXCEPT !.page.els =
                             [n \in DOMAIN SimpleElements |->
                                 IF n \in sw.page.present
                                 THEN SimpleAttributeMarkerWrite(SimpleElements[n], r.els[n],
                                          SimpleLanguageToggle_getTranslation(
                                              SimpleElements[n].key, tree))
                                 ELSE r.els[n]]],
                   threw |-> FALSE]

\* toggleButton is null when the container has no toggle: the first
\* toggleButton.querySelector throws.
SimpleLanguageToggle_updateToggleLayout(sw, language) ==
    IF ~sw.page.button.exists THEN [sw |-> sw, threw |-> TRUE]
    ELSE [sw |-> [sw EXCEPT
                    !.page.lang = IF language = "ar" THEN "ar" ELSE "en",
                    !.page.button.slideRight = (language = "ar"),
                    !.page.button.options =
                        IF language = "ar"
                        THEN <<(@[1] \ {"active"}) \cup {"inactive"},
                               (@[2] \ {"inactive"}) \cup {"active"}>>
                        ELSE <<(@[1] \ {"inactive"}) \cup {"active"},
                               (@[2] \ {"active"}) \cup {"inactive"}>>],
          threw |-> FALSE]

SimpleLanguageToggle_createToggle(sw) ==
    IF ~sw.page.container THEN sw
    ELSE LET isArabic == sw.simple.currentLanguage = "ar"
             made == [sw EXCEPT !.page.button =
                        [exists |-> TRUE, currentLang |-> sw.simple.currentLanguage,
                         slideRight |-> FALSE,
                         options |-> <<{IF isArabic THEN "inactive" ELSE "active"},
                                       {IF isArabic THEN "active" ELSE "inactive"}>>,
                         listeners |-> 0]]
         IN  SimpleLanguageToggle_updateToggleLayout(made, sw.simple.currentLanguage).sw

SimpleLanguageToggle_setupEventListeners(sw) ==
    IF sw.page.button.exists
    THEN [sw EXCEPT !.page.button.listeners = @ + 1]
    ELSE sw

\* The loop of loadTranslations over possiblePaths.
RECURSIVE LoadFromPaths(_, _, _, _)
LoadFromPaths(outcomes, i, enData, arData) ==
    IF i > Len(possiblePaths) THEN [enData |-> enData, arData |-> arData]
    ELSE IF outcomes[i] = "both" THEN [enData |-> EnDoc, arData |-> ArDoc]
    ELSE IF outcomes[i] = "enOnly" THEN LoadFromPaths(outcomes, i + 1, EnDoc, arData)
    ELSE LoadFromPaths(outcomes, i + 1, enData, arData)

SimpleLanguageToggle_loadTranslations(sw, outcomes) ==
    LET r == LoadFromPaths(outcomes, 1, Undefined, Undefined)
    IN  IF ~Truthy(r.enData) \/ ~Truthy(r.arData)
        THEN [sw |-> sw, threw |-> TRUE]
        ELSE [sw |-> [sw EXCEPT !.simple.translations =
                          ("en" :> r.enData) @@ ("ar" :> r.arData)],
              threw |-> FALSE]

\* init with no .catch handler: the rejection of loadTranslations is left
\* unhandled and nothing is created.
SimpleLanguageToggle_init_catch_GiveUp(sw) ==
    [sw EXCEPT !.uncaught = @ \cup {"init"}]

\* init: .catch(error => { createToggle; setupEventListeners; updateToggleLayout })
SimpleLanguageToggle_init_catch(sw) ==
    LET w1 == SimpleLanguageToggle_createToggle(sw)
        w2 == SimpleLanguageToggle_setupEventListeners(w1)
        r == SimpleLanguageToggle_updateToggleLayout(w2, w2.simple.currentLanguage)
    IN  IF r.threw THEN [r.sw EXCEPT !.uncaught = @ \cup {"init"}] ELSE r.sw

\* init: .then(() => { createToggle; setupEventListeners; applyTranslations;
\* updateToggleLayout }); what it throws goes to the .catch after it.
SimpleLanguageToggle_init_then(sw) ==
    LET w1 == SimpleLanguageToggle_createToggle(sw)
        w2 == SimpleLanguageToggle_setupEventListeners(w1)
        r3 == SimpleLanguageToggle_applyTranslations(w2, w2.simple.currentLanguage)
        r4 == SimpleLanguageToggle_updateToggleLayout(r3.sw, r3.sw.simple.currentLanguage)
    IN  IF r3.threw THEN SimpleLanguageToggle_init_catch(r3.sw)
        ELSE IF r4.threw THEN SimpleLanguageToggle_init_catch(r4.sw)
        ELSE r4.sw

\* init(), from the settling of loadTranslations on.
SimpleLanguageToggle_init(sw, outcomes) ==
    LET r == SimpleLanguageToggle_loadTranslations(sw, outcomes)
        w == [r.sw EXCEPT !.simple.pc = "ready"]
    IN  IF r.threw THEN SimpleLanguageToggle_init_catch(w)
        ELSE SimpleLanguageToggle_init_then(w)

SimpleLanguageToggle_toggleLanguage(sw) ==
    LET oldLang == sw.simple.currentLanguage
        newLang == IF sw.simple.currentLanguage = "en" THEN "ar" ELSE "en"
        w1 == [sw EXCEPT !.page.button.currentLang = newLang,
                         !.simple.currentLanguage = newLang]
        w2 == SimpleLanguageToggle_saveLanguagePreference(w1, newLang)
        r3 == SimpleLanguageToggle_applyTranslations(w2, newLang)
        r4 == SimpleLanguageToggle_updateToggleLayout(r3.sw, newLang)
    IN  IF r3.threw THEN [r3.sw EXCEPT !.uncaught = @ \cup {"toggleLanguage"}]
        ELSE IF r4.threw THEN [r4.sw EXCEPT !.uncaught = @ \cup {"toggleLanguage"}]
        ELSE [r4.sw EXCEPT
                 !.page.headerStyle = IF sw.page.header
                                      THEN [direction |-> "ltr", textAlign |-> "left"]
                                      ELSE @,
                 !.dispatched = Append(@, [from |-> oldLang, to |-> newLang])]

\* The click listener, or the keydown listener on Enter or Space, of every
\* setupEventListeners call made on the button.
RECURSIVE RunToggleListeners(_, _)
RunToggleListeners(sw, n) ==
    IF n = 0 THEN sw
    ELSE RunToggleListeners(SimpleLanguageToggle_toggleLanguage(sw), n - 1)

VARIABLES
    simple,      \* the SimpleLanguageToggle object
    page,        \* the document SimpleLanguageToggle works on
    preference,  \* localStorage 'marln_language_preference'
    dispatched,  \* the languageChanged events dispatched on the document
    uncaught,    \* the handlers an exception escaped from
    activations  \* clicks and Enter / Space keydowns on the toggle so far

svars == <<simple, page, preference, dispatched, uncaught, activations>>

SimpleWorld ==
    [simple |-> simple, page |-> page, preference |-> preference,
     dispatched |-> dispatched, uncaught |-> uncaught]

SimpleCommit(sw) ==
    /\ simple' = sw.simple
    /\ page' = sw.page
    /\ preference' = sw.preference
    /\ dispatched' = sw.dispatched
    /\ uncaught' = sw.uncaught

SimpleCommitted(sw) ==
    /\ simple = sw.simple
    /\ page = sw.page
    /\ preference = sw.preference
    /\ dispatched = sw.dispatched
    /\ uncaught = sw.uncaught

NewPage(present, container, header) ==
    [present |-> present, container |-> container, header |-> header,
     button |-> NoButton, lang |-> "en",
     headerStyle |-> [direction |-> "", textAlign |-> ""],
     els |-> [n \in DOMAIN SimpleElements |->
                [textContent |-> StaticText, parsed |-> FALSE,
                 placeholder |-> <<>>, value |-> <<>>]]]

\* new SimpleLanguageToggle(containerId): the constructor has read the
\* stored language and started loadTranslations.
NewSimple(stored) ==
    [currentLanguage |-> SimpleLanguageToggle_getStoredLanguage(stored),
     translations |-> EmptyMap, pc |-> "loading"]

SimpleIdle ==
    /\ simple = NewSimple(NoValue)
    /\ page = NewPage({}, FALSE, FALSE)
    /\ preference = NoValue
    /\ dispatched = <<>>
    /\ uncaught = {}
    /\ activations = 0

(***************************************************************************)
(* State.                                                                  *)
(***************************************************************************)
VARIABLES
    engine,      \* the LocalizationEngine object
    system,      \* the MarlnLocalizationSystem object
    doc,         \* the document
    storage,     \* localStorage entry, cookie and URL parameter of the engine
    frames,      \* suspended async calls
    microtasks,  \* promise reactions waiting to run
    now,         \* Date.now()
    calls,       \* calls made from outside so far
    applied,     \* the code whose tree the last updatePage pass wrote
    notified,    \* the last languageChanged payload the engine emitted
    settled,     \* how the last call made from outside ended
    escaped,     \* the orchestrator calls that threw or rejected
    delivered    \* the emit calls of the step that ran last, in order

evars == <<engine, system, doc, storage, frames, microtasks, now, calls,
           applied, notified, settled, escaped, delivered>>

NewEngine ==
    [currentLanguage |-> defaultLanguage, previousLanguage |-> NullLang,
     translations |-> EmptyMap, cache |-> EmptyMap, isInitialized |-> FALSE,
     eventListeners |-> EmptyMap]

\* destroy(): cache.clear(), translations.clear(), eventListeners.clear(),
\* isInitialized = false, currentLanguage = the default language.  Calls that
\* are suspended stay suspended.
LocalizationEngine_destroy(w) ==
    [w EXCEPT !.engine.cache = EmptyMap,
              !.engine.translations = EmptyMap,
              !.engine.eventListeners = EmptyMap,
              !.engine.isInitialized = FALSE,
              !.engine.currentLanguage = defaultLanguage]

\* toggleLanguage is the language the system's toggle widget displays
\* (its currentLanguage and data-current-lang), NoValue while the system
\* has no toggle.
NewSystem ==
    [engine |-> FALSE, toggle |-> FALSE, toggleLanguage |-> NoValue,
     isInitialized |-> FALSE, eventListeners |-> EmptyMap]

World ==
    [engine |-> engine, system |-> system, doc |-> doc, storage |-> storage,
     frames |-> frames, microtasks |-> microtasks, now |-> now,
     applied |-> applied, notified |-> notified, settled |-> settled,
     escaped |-> escaped, delivered |-> <<>>]

Commit(w) ==
    /\ engine' = w.engine
    /\ system' = w.system
    /\ doc' = w.doc
    /\ storage' = w.storage
    /\ frames' = w.frames
    /\ microtasks' = w.microtasks
    /\ applied' = w.applied
    /\ notified' = w.notified
    /\ settled' = w.settled
    /\ escaped' = w.escaped
    /\ delivered' = w.delivered

EngineIdle ==
    /\ engine = NewEngine
    /\ system = NewSystem
    /\ doc = NewDocument
    /\ frames = {}
    /\ microtasks = <<>>
    /\ now = 0
    /\ calls = [started |-> FALSE, made |-> 0, listener |-> FALSE,
                fn |-> NoValue, request |-> NoValue]
    /\ applied = NoValue
    /\ notified = [from |-> NullLang, to |-> NullLang]
    /\ settled = [fn |-> NoValue, outcome |-> NoValue, value |-> Undefined,
                  requested |-> NoValue, code |-> NoValue, fetches |-> 0]
    /\ escaped = {}
    /\ delivered = <<>>

Init ==
    /\ EngineIdle
    /\ storage \in [localStorage : {NoValue, "ar"}, cookie : {NoValue}, url : {NoValue},
                  blocked : {{}}]
    /\ rTree = Obj(EmptyMap) /\ rKey = <<>> /\ rEngine = NotRun /\ rSimple = NotRun
    /\ HelpersIdle
    /\ SimpleIdle

\* Tasks run one at a time, each after the microtasks of the one before.
TaskMayStart == microtasks = <<>>

ListenedEvents == <<"error", "languageChanged", "ready", "languageSet">>

CallEngineInit ==
    /\ TaskMayStart
    /\ ~calls.started
    /\ Commit(LocalizationEngine_init(World, 0))
    /\ calls' = [calls EXCEPT !.started = TRUE]
    /\ UNCHANGED <<now>>
    /\ UNCHANGED <<rvars, svars, hvars>>

CallSystemInit ==
    /\ TaskMayStart
    /\ ~calls.started
    /\ Commit(MarlnLocalizationSystem_init(World))
    /\ calls' = [calls EXCEPT !.started = TRUE]
    /\ UNCHANGED <<now>>
    /\ UNCHANGED <<rvars, svars, hvars>>

\* The document click / change listeners that setupEventListeners adds: the
\* target carries data-language (or the select's value) = language.
DocumentLanguageEvent ==
    /\ TaskMayStart
    /\ calls.made < MaxCalls
    /\ doc.languageListeners > 0
    /\ \E language \in RequestCodes :
          /\ Commit(LocalizationEngine_setLanguage(World, language, 0))
          /\ calls' = [calls EXCEPT !.made = @ + 1, !.fn = "setLanguage",
                                    !.request = language]
    /\ UNCHANGED <<now>>
    /\ UNCHANGED <<rvars, svars, hvars>>

CallSetLanguage ==
    /\ TaskMayStart
    /\ calls.made < MaxCalls
    /\ \E languageCode \in RequestCodes :
          /\ Commit(LocalizationEngine_setLanguage(World, languageCode, 0))
          /\ calls' = [calls EXCEPT !.made = @ + 1, !.fn = "setLanguage",
                                    !.request = languageCode]
    /\ UNCHANGED <<now>>
    /\ UNCHANGED <<rvars, svars, hvars>>

\* engine.loadLanguage(languageCode) called from outside.
CallLoadLanguage ==
    /\ TaskMayStart
    /\ calls.made < MaxCalls
    /\ \E languageCode \in RequestCodes :
          /\ Commit(LocalizationEngine_loadLanguage(World,
                 Frame(FreshId(World), "loadLanguage", languageCode, "start", 0),
                 languageCode))
          /\ calls' = [calls EXCEPT !.made = @ + 1, !.fn = "loadLanguage",
                                    !.request = languageCode]
    /\ UNCHANGED <<now>>
    /\ UNCHANGED <<rvars, svars, hvars>>

CallSystemSetLanguage ==
    /\ TaskMayStart
    /\ calls.made < MaxCalls
    /\ \E languageCode \in RequestCodes :
          /\ Commit(MarlnLocalizationSystem_setLanguage(World, languageCode))
          /\ calls' = [calls EXCEPT !.made = @ + 1, !.fn = "system.setLanguage",
                                    !.request = languageCode]
    /\ UNCHANGED <<now>>
    /\ UNCHANGED <<rvars, svars, hvars>>

CallSystemRefresh ==
    /\ TaskMayStart
    /\ calls.made < MaxCalls
    /\ system.engine
    /\ Commit(MarlnLocalizationSystem_refreshLanguageState(World))
    /\ calls' = [calls EXCEPT !.made = @ + 1, !.fn = "system.refreshLanguageState",
                              !.request = NoValue]
    /\ UNCHANGED <<now>>
    /\ UNCHANGED <<rvars, svars, hvars>>

\* A page script subscribes, before anything is started, a callback that
\* throws to every event of the engine or of the system:
\* target.on(event, callback) for each event.
RECURSIVE OnEach(_, _)
OnEach(eventListeners, events) ==
    IF events = <<>> THEN eventListeners
    ELSE OnEach(on(eventListeners, Head(events), [throws |-> TRUE]), Tail(events))

RegisterListener ==
    /\ TaskMayStart
    /\ ~calls.listener /\ ~calls.started /\ calls.made = 0
    /\ \/ engine' = [engine EXCEPT !.eventListeners = OnEach(@, ListenedEvents)]
          /\ UNCHANGED system
       \/ system' = [system EXCEPT !.eventListeners = OnEach(@, ListenedEvents)]
          /\ UNCHANGED engine
    /\ calls' = [calls EXCEPT !.listener = TRUE]
    /\ UNCHANGED <<doc, storage, frames, microtasks, now, applied, notified, settled,
                   escaped, delivered>>
    /\ UNCHANGED <<rvars, svars, hvars>>

\* A fetch (with its response.json()) settles.
FetchSettles ==
    /\ TaskMayStart
    /\ \E f \in frames :
          /\ f.pc = "fetch"
          /\ \E outcome \in FetchOutcomes(f.code) :
                Commit(LocalizationEngine_loadLanguage_settled(World, f, outcome))
    /\ UNCHANGED <<now, calls>>
    /\ UNCHANGED <<rvars, svars, hvars>>

RunMicrotask ==
    /\ microtasks # <<>>
    /\ Commit(Resume([World EXCEPT !.microtasks = Tail(@)], Head(microtasks)))
    /\ UNCHANGED <<now, calls>>
    /\ UNCHANGED <<rvars, svars, hvars>>

Tick ==
    /\ TaskMayStart
    /\ now < MaxTicks * TickMs
    /\ now' = now + TickMs
    /\ UNCHANGED <<engine, system, doc, storage, frames, microtasks, calls,
                   applied, notified, settled, escaped, delivered>>
    /\ UNCHANGED <<rvars, svars, hvars>>

\* The engine used on its own.
Next ==
    \/ CallEngineInit
    \/ DocumentLanguageEvent
    \/ CallSetLanguage
    \/ CallLoadLanguage
    \/ FetchSettles
    \/ RunMicrotask
    \/ Tick

\* The engine used through the system, on a page whose scripts subscribe
\* listeners.
SystemNext ==
    \/ CallSystemInit
    \/ DocumentLanguageEvent
    \/ CallSystemSetLanguage
    \/ CallSystemRefresh
    \/ RegisterListener
    \/ FetchSettles
    \/ RunMicrotask
    \/ Tick

\* The engine on a page whose scripts call setLanguage with the codes of the
\* two translation files, a call being possible while another is suspended.
SwitchLanguage ==
    /\ TaskMayStart
    /\ calls.made < MaxSwitches
    /\ \E languageCode \in getActiveLanguages :
          /\ Commit(LocalizationEngine_setLanguage(World, languageCode, 0))
          /\ calls' = [calls EXCEPT !.made = @ + 1, !.fn = "setLanguage",
                                    !.request = languageCode]
    /\ UNCHANGED <<now>>
    /\ UNCHANGED <<rvars, svars, hvars>>

OverlapNext ==
    \/ SwitchLanguage
    \/ FetchSettles
    \/ RunMicrotask

vars == <<engine, system, doc, storage, frames, microtasks, now, calls,
          applied, notified, settled, escaped, delivered, rTree, rKey, rEngine, rSimple,
          simple, page, preference, dispatched, uncaught, activations,
          element, stateOps, debouncer>>

Spec == Init /\ [][Next]_vars

SpecSystem == Init /\ [][SystemNext]_vars

SpecOverlap == Init /\ [][OverlapNext]_vars

\* Startup: the engine's init on a page opened with any of the three
\* persistence channels absent or holding a code, whatever it names.
StartupCodes == {NoValue, "en", "ar", "xx", InheritedName}

StartupInit ==
    /\ EngineIdle
    /\ storage \in [localStorage : StartupCodes, cookie : StartupCodes, url : StartupCodes,
                  blocked : {{}}]
    /\ rTree = Obj(EmptyMap) /\ rKey = <<>> /\ rEngine = NotRun /\ rSimple = NotRun
    /\ HelpersIdle
    /\ SimpleIdle

StartupNext ==
    \/ CallEngineInit
    \/ FetchSettles
    \/ RunMicrotask

SpecStartup == StartupInit /\ [][StartupNext]_vars

\* Persistence in a browser where the write to any of the channels may
\* throw: setLanguage called on the engine, switches overlapping or not.
PersistenceChannels == {"localStorage", "cookie", "url"}

PersistInit ==
    /\ EngineIdle
    /\ \E blocked \in SUBSET PersistenceChannels :
          storage = [localStorage |-> NoValue, cookie |-> NoValue, url |-> NoValue,
                     blocked |-> blocked]
    /\ rTree = Obj(EmptyMap) /\ rKey = <<>> /\ rEngine = NotRun /\ rSimple = NotRun
    /\ HelpersIdle
    /\ SimpleIdle

SpecPersist == PersistInit /\ [][OverlapNext]_vars

\* document 'visibilitychange'.  The listener is the one setupGlobalEvents
\* registers, in the block of the system's init that ends with
\* isInitialized = true; it calls refreshLanguageState when the document is
\* not hidden and the system is initialized.
VisibilityChange ==
    /\ TaskMayStart
    /\ calls.made <= MaxCalls
    /\ calls.fn # "visibilitychange"
    /\ \E hidden \in BOOLEAN :
          /\ Commit(IF system.isInitialized /\ ~hidden
                    THEN MarlnLocalizationSystem_refreshLanguageState(World)
                    ELSE World)
          /\ calls' = [calls EXCEPT !.made = @ + 1, !.fn = "visibilitychange",
                                    !.request = IF hidden THEN "hidden" ELSE "visible"]
    /\ UNCHANGED <<now>>
    /\ UNCHANGED <<rvars, svars, hvars>>

\* The page of the system: its init, a language set through it, and a
\* visibility event at any moment.
VisibilityNext ==
    \/ CallSystemInit
    \/ CallSystemSetLanguage
    \/ VisibilityChange
    \/ FetchSettles
    \/ RunMicrotask

SpecVisibility == Init /\ [][VisibilityNext]_vars

\* Emission on a page whose scripts have subscribed, before anything is
\* started, up to MaxListeners callbacks to 'error' and as many to every other
\* event, on the engine and on the system; each callback throws or returns.
MaxListeners == 2

ListenerLists == UNION {[1..n -> [throws : BOOLEAN]] : n \in 0..MaxListeners}

RECURSIVE OnAll(_, _, _)
OnAll(eventListeners, event, callbacks) ==
    IF callbacks = <<>> THEN eventListeners
    ELSE OnAll(on(eventListeners, event, Head(callbacks)), event, Tail(callbacks))

Subscribed(onError, onOther) ==
    OnAll(OnAll(OnAll(OnAll(EmptyMap, "error", onError),
                      "languageChanged", onOther), "ready", onOther),
          "languageSet", onOther)

EmitInit ==
    /\ \E onError \in ListenerLists, onOther \in ListenerLists :
          /\ engine = [NewEngine EXCEPT
                           !.eventListeners = Subscribed(onError, onOther)]
          /\ system = [NewSystem EXCEPT
                           !.eventListeners = Subscribed(onError, onOther)]
    /\ doc = NewDocument
    /\ frames = {}
    /\ microtasks = <<>>
    /\ now = 0
    /\ calls = [started |-> FALSE, made |-> 0, listener |-> TRUE,
                fn |-> NoValue, request |-> NoValue]
    /\ applied = NoValue
    /\ notified = [from |-> NullLang, to |-> NullLang]
    /\ settled = [fn |-> NoValue, outcome |-> NoValue, value |-> Undefined,
                  requested |-> NoValue, code |-> NoValue, fetches |-> 0]
    /\ escaped = {}
    /\ delivered = <<>>
    /\ storage = [localStorage |-> NoValue, cookie |-> NoValue, url |-> NoValue,
                  blocked |-> {}]
    /\ rTree = Obj(EmptyMap) /\ rKey = <<>> /\ rEngine = NotRun /\ rSimple = NotRun
    /\ HelpersIdle
    /\ SimpleIdle

EmitNext ==
    \/ CallSystemInit
    \/ CallSystemSetLanguage
    \/ FetchSettles
    \/ RunMicrotask

SpecEmit == EmitInit /\ [][EmitNext]_vars

(***************************************************************************)
(* The state helpers on one element: a loading state and an error state    *)
(* are added and removed, nested or interleaved, each removed only after   *)
(* it was added and added only when it is not on.                          *)
(***************************************************************************)
MaxStateOps == 4

ElementTexts == {"", "Save", "Loading..."}
LoadingTexts == {"Loading...", "Please wait"}
ErrorTexts == {"Error", "Failed"}

\* The state is on: the last call of its two helpers was the add.
RECURSIVE StateOn(_, _, _)
StateOn(ops, add, remove) ==
    IF ops = <<>> THEN FALSE
    ELSE LET last == ops[Len(ops)].fn
         IN  IF last = add THEN TRUE
             ELSE IF last = remove THEN FALSE
             ELSE StateOn(SubSeq(ops, 1, Len(ops) - 1), add, remove)

LoadingOn == StateOn(stateOps, "addLoadingState", "removeLoadingState")
ErrorOn == StateOn(stateOps, "addErrorState", "removeErrorState")

StateOp(fn) == [fn |-> fn, found |-> element.textContent]

StatesInit ==
    /\ element \in {NewElement(text) : text \in ElementTexts}
    /\ stateOps = <<>>
    /\ debouncer = NewDebouncer(0)
    /\ rTree = Obj(EmptyMap) /\ rKey = <<>> /\ rEngine = NotRun /\ rSimple = NotRun
    /\ EngineIdle
    /\ storage = [localStorage |-> NoValue, cookie |-> NoValue, url |-> NoValue,
                  blocked |-> {}]
    /\ SimpleIdle

AddLoadingState ==
    /\ Len(stateOps) < MaxStateOps
    /\ ~LoadingOn
    /\ \E loadingText \in LoadingTexts :
          element' = DOMHelpers_addLoadingState(element, loadingText)
    /\ stateOps' = Append(stateOps, StateOp("addLoadingState"))
    /\ UNCHANGED <<evars, rvars, svars, debouncer>>

RemoveLoadingState ==
    /\ Len(stateOps) < MaxStateOps
    /\ LoadingOn
    /\ element' = DOMHelpers_removeLoadingState(element)
    /\ stateOps' = Append(stateOps, StateOp("removeLoadingState"))
    /\ UNCHANGED <<evars, rvars, svars, debouncer>>

AddErrorState ==
    /\ Len(stateOps) < MaxStateOps
    /\ ~ErrorOn
    /\ \E errorText \in ErrorTexts :
          element' = DOMHelpers_addErrorState(element, errorText)
    /\ stateOps' = Append(stateOps, StateOp("addErrorState"))
    /\ UNCHANGED <<evars, rvars, svars, debouncer>>

RemoveErrorState ==
    /\ Len(stateOps) < MaxStateOps
    /\ ErrorOn
    /\ element' = DOMHelpers_removeErrorState(element)
    /\ stateOps' = Append(stateOps, StateOp("removeErrorState"))
    /\ UNCHANGED <<evars, rvars, svars, debouncer>>

StatesNext ==
    \/ AddLoadingState
    \/ RemoveLoadingState
    \/ AddErrorState
    \/ RemoveErrorState

SpecStates == StatesInit /\ [][StatesNext]_vars

(***************************************************************************)
(* A debounced function on an event loop that is idle between the calls:   *)
(* time passes in ticks, the callback of a timer runs at the tick the timer *)
(* falls due, before time passes and before a call made at that tick.      *)
(***************************************************************************)
MaxWait == 2
MaxDebounceCalls == 3
MaxClock == 6

DebounceArgs == {"a", "b"}

TimerDue == \E t \in debouncer.timers : t.due <= debouncer.clock

DebounceInit ==
    /\ debouncer \in {NewDebouncer(wait) : wait \in 0..MaxWait}
    /\ element = NewElement("")
    /\ stateOps = <<>>
    /\ rTree = Obj(EmptyMap) /\ rKey = <<>> /\ rEngine = NotRun /\ rSimple = NotRun
    /\ EngineIdle
    /\ storage = [localStorage |-> NoValue, cookie |-> NoValue, url |-> NoValue,
                  blocked |-> {}]
    /\ SimpleIdle

CallDebounced ==
    /\ ~TimerDue
    /\ Len(debouncer.calls) < MaxDebounceCalls
    /\ \E args \in DebounceArgs :
          debouncer' = DOMHelpers_debounce_executedFunction(debouncer, args)
    /\ UNCHANGED <<evars, rvars, svars, element, stateOps>>

TimerFires ==
    /\ \E timer \in debouncer.timers :
          /\ timer.due <= debouncer.clock
          /\ \A t \in debouncer.timers :
                t.due > timer.due \/ (t.due = timer.due /\ t.id >= timer.id)
          /\ debouncer' = DOMHelpers_debounce_later(debouncer, timer)
    /\ UNCHANGED <<evars, rvars, svars, element, stateOps>>

ClockTick ==
    /\ ~TimerDue
    /\ debouncer.clock < MaxClock
    /\ debouncer' = [debouncer EXCEPT !.clock = @ + 1]
    /\ UNCHANGED <<evars, rvars, svars, element, stateOps>>

DebounceNext ==
    \/ CallDebounced
    \/ TimerFires
    \/ ClockTick

SpecDebounce == DebounceInit /\ [][DebounceNext]_vars

\* The engine torn down: destroy() is called once, at any moment after the
\* engine was started, also while a load or a switch is suspended.
CallDestroy ==
    /\ TaskMayStart
    /\ calls.started
    /\ calls.fn # "destroy"
    /\ calls.made <= MaxCalls
    /\ Commit(LocalizationEngine_destroy(World))
    /\ calls' = [calls EXCEPT !.made = MaxCalls + 1, !.fn = "destroy",
                              !.request = NoValue]
    /\ UNCHANGED <<now>>
    /\ UNCHANGED <<rvars, svars, hvars>>

DestroyNext ==
    \/ CallEngineInit
    \/ CallSetLanguage
    \/ CallDestroy
    \/ FetchSettles
    \/ RunMicrotask

SpecDestroy == Init /\ [][DestroyNext]_vars

\* The system as wired by its init, switched from outside: every fetch
\* settles in the end and every queued continuation is run.
WiringNext ==
    \/ CallSystemInit
    \/ CallSystemSetLanguage
    \/ DocumentLanguageEvent
    \/ FetchSettles
    \/ RunMicrotask

\* Work the event loop still has to do: a continuation queued or a fetch
\* in flight, which is when FetchSettles or RunMicrotask can take a step.
WiringPending ==
    \/ microtasks # <<>>
    \/ \E f \in frames : f.pc = "fetch"

\* Weak fairness of the event loop's own steps, with their enabling
\* condition written out.
SpecWiring ==
    /\ Init
    /\ [][WiringNext]_vars
    /\ \/ []<>(~WiringPending)
       \/ []<><<FetchSettles \/ RunMicrotask>>_vars

(***************************************************************************)
(* The key resolvers on their own: one tree, one key, each resolver run    *)
(* once on them.                                                           *)
(***************************************************************************)
ResolveInit ==
    /\ rTree \in Trees
    /\ rKey \in Keys
    /\ rEngine = NotRun
    /\ rSimple = NotRun
    /\ HelpersIdle
    /\ EngineIdle
    /\ storage = [localStorage |-> NoValue, cookie |-> NoValue, url |-> NoValue,
                 blocked |-> {}]
    /\ SimpleIdle

ResolveEngine ==
    /\ rEngine = NotRun
    /\ rEngine' = LocalizationEngine_getTranslation(rKey, rTree)
    /\ UNCHANGED <<rTree, rKey, rSimple>>
    /\ UNCHANGED <<evars, svars, hvars>>

ResolveSimple ==
    /\ rSimple = NotRun
    /\ rSimple' = SimpleLanguageToggle_getTranslation(rKey, rTree)
    /\ UNCHANGED <<rTree, rKey, rEngine>>
    /\ UNCHANGED <<evars, svars, hvars>>

ResolveNext == ResolveEngine \/ ResolveSimple

SpecResolve == ResolveInit /\ [][ResolveNext]_vars


(***************************************************************************)
(* The resolver contract of the specification, section 4.1: walk the OWN   *)
(* properties of the tree, one segment at a time.                          *)
(***************************************************************************)
(* SimpleLanguageToggle on a page: any subset of SimpleElements, with or   *)
(* without the toggle's container and a header, any stored preference.     *)
(***************************************************************************)
StoredPreferences == {NoValue, "en", "ar", "fr"}

SimpleInit ==
    /\ preference \in StoredPreferences
    /\ simple = NewSimple(preference)
    /\ page \in {NewPage(present, container, header) :
                    present \in SUBSET DOMAIN SimpleElements,
                    container \in BOOLEAN, header \in BOOLEAN}
    /\ dispatched = <<>>
    /\ uncaught = {}
    /\ activations = 0
    /\ EngineIdle
    /\ storage = [localStorage |-> NoValue, cookie |-> NoValue, url |-> NoValue,
                 blocked |-> {}]
    /\ rTree = Obj(EmptyMap) /\ rKey = <<>> /\ rEngine = NotRun /\ rSimple = NotRun
    /\ HelpersIdle

\* loadTranslations settles and init's then / catch handler runs.
SimpleLoadSettles ==
    /\ simple.pc = "loading"
    /\ \E outcomes \in [DOMAIN possiblePaths -> PathOutcomes] :
          SimpleCommit(SimpleLanguageToggle_init(SimpleWorld, outcomes))
    /\ UNCHANGED activations
    /\ UNCHANGED <<evars, rvars, hvars>>

\* A click, or a keydown of Enter or Space, on the toggle button.
Activate ==
    /\ page.button.exists
    /\ page.button.listeners > 0
    /\ activations < MaxActivations
    /\ \E event \in {"click", "Enter", " "} :
          SimpleCommit(RunToggleListeners(SimpleWorld, page.button.listeners))
    /\ activations' = activations + 1
    /\ UNCHANGED <<evars, rvars, hvars>>

SimpleNext ==
    \/ SimpleLoadSettles
    \/ Activate

SpecSimple == SimpleInit /\ [][SimpleNext]_vars

(***************************************************************************)
(* The apply passes on translation files of any content: a leaf is empty,  *)
(* plain text or text with markup.  Either SimpleLanguageToggle has loaded *)
(* the two files and run its init on a page carrying any subset of         *)
(* SimpleElements, or the engine has loaded them (init with no saved       *)
(* preference, preload done) on the page of PageElements.                  *)
(***************************************************************************)
ApplyLeaves(code) ==
    IF code = "ar" THEN {<<>>, <<"Marhaba">>}
    ELSE {<<>>, <<"Hello">>, <<"<", "Hello", ">">>}

ApplyDoc(title, common) ==
    Obj((<<"title">> :> Str(title))
        @@ (<<"header">> :> Obj(<<"about">> :> Text("About")))
        @@ (<<"common">> :> Obj((<<"namePlaceholder">> :> Str(common))
                                @@ (<<"sendMessage">> :> Str(common)))))

ApplyDocs(code) ==
    {ApplyDoc(title, common) :
        title \in ApplyLeaves(code), common \in {<<>>, <<"Name", code>>}}

ApplyInit ==
    /\ rTree = Obj(EmptyMap) /\ rKey = <<>> /\ rEngine = NotRun /\ rSimple = NotRun
    /\ HelpersIdle
    /\ storage = [localStorage |-> NoValue, cookie |-> NoValue, url |-> NoValue,
                 blocked |-> {}]
    /\ \E enData \in ApplyDocs("en"), arData \in ApplyDocs("ar") :
          \/ /\ EngineIdle
             /\ activations = 0
             /\ \E present \in SUBSET DOMAIN SimpleElements, stored \in {NoValue, "ar"} :
                   SimpleCommitted(SimpleLanguageToggle_init_then(
                       [simple |-> [NewSimple(stored) EXCEPT
                                      !.translations = ("en" :> enData) @@ ("ar" :> arData),
                                      !.pc = "ready"],
                        page |-> NewPage(present, TRUE, TRUE),
                        preference |-> stored,
                        dispatched |-> <<>>,
                        uncaught |-> {}]))
          \/ /\ SimpleIdle
             /\ engine = [NewEngine EXCEPT
                             !.translations = ("en" :> enData) @@ ("ar" :> arData),
                             !.cache = ("en" :> [data |-> enData, timestamp |-> 0])
                                       @@ ("ar" :> [data |-> arData, timestamp |-> 0]),
                             !.isInitialized = TRUE]
             /\ system = NewSystem
             /\ doc = [NewDocument EXCEPT !.languageListeners = 1]
             /\ frames = {}
             /\ microtasks = <<>>
             /\ now = 0
             /\ calls = [started |-> TRUE, made |-> 0, listener |-> FALSE,
                         fn |-> NoValue, request |-> NoValue]
             /\ applied = NoValue
             /\ notified = [from |-> NullLang, to |-> NullLang]
             /\ settled = [fn |-> "init", outcome |-> "ok", value |-> Undefined,
                           requested |-> defaultLanguage, code |-> defaultLanguage,
                           fetches |-> 0]
             /\ escaped = {}
             /\ delivered = <<>>

\* setLanguage called on the initialised engine.
SwitchInitialized ==
    /\ engine.isInitialized
    /\ SwitchLanguage

ApplyNext ==
    \/ Activate
    \/ SwitchInitialized
    \/ RunMicrotask

SpecApply == ApplyInit /\ [][ApplyNext]_vars

(***************************************************************************)
RECURSIVE OwnWalk(_, _)
OwnWalk(node, segs) ==
    IF segs = <<>> THEN node
    ELSE IF node.t = "object" /\ Head(segs) \in DOMAIN node.m
         THEN OwnWalk(node.m[Head(segs)], Tail(segs))
         ELSE Null

\* C1: both resolvers return the value reached by walking the key's segments
\* from the root when every segment is present, and NOT_FOUND (null) when a
\* segment is absent from a mapping or the key continues past a string leaf.
C1_ResolveWalksSegments ==
    /\ rEngine # NotRun => rEngine = OwnWalk(rTree, split(rKey))
    /\ rSimple # NotRun => rSimple = OwnWalk(rTree, split(rKey))

\* C2: the result of resolve is a leaf string of the tree or NOT_FOUND, never
\* the sub-mapping an interior key names.
C2_ResolveYieldsLeafOrNotFound ==
    /\ rEngine.t \in {"notrun", "null", "string"}
    /\ rSimple.t \in {"notrun", "null", "string"}


(***************************************************************************)
(* Properties of the engine (Spec) and of the system (SpecSystem).         *)
(***************************************************************************)
Fetching(fs) == {f \in fs : f.pc = "fetch"}

OutsideCall == calls'.made = calls.made + 1

Resumes(f) == microtasks # <<>> /\ Head(microtasks).to = f.id

\* C3: a call with an unsupported code (loadLanguage, setLanguage or the
\* system's setLanguage with 'xx') issues no fetch and leaves the engine's
\* current language as it was before the call.
C3_UnsupportedRejectedUnchanged ==
    [][(OutsideCall /\ calls'.request \in RequestCodes \ SUPPORTED_LANGUAGES)
         => /\ Fetching(frames') = Fetching(frames)
            /\ engine'.currentLanguage = engine.currentLanguage]_vars

\* C4: when a switch to a non-default code ends after its load fell back
\* (the load resolved with the fallback's tree), the tree applied to the
\* page is the fallback's, and the code the engine holds as current and
\* announces to the widget is the fallback code.
C4_FallbackAppliedAndShown ==
    [][\A f \in frames :
          (/\ Resumes(f) /\ f.fn = "setLanguage" /\ f.pc = "awaitUpdate"
           /\ f.code # fallbackLanguage
           /\ f.loaded = FileOf(fallbackLanguage))
          => /\ applied' = fallbackLanguage
             /\ engine'.currentLanguage = fallbackLanguage
             /\ notified'.to = fallbackLanguage]_vars

\* C5: when the load of a switch fails, the engine's current language
\* afterwards is the code that was current when that switch was requested,
\* also when another switch was requested in between.
C5_FailedSwitchReverts ==
    [][\A f \in frames :
          (/\ Resumes(f) /\ f.fn = "setLanguage" /\ f.pc = "awaitLoad"
           /\ Head(microtasks).outcome = "throw")
          => engine'.currentLanguage = f.before]_vars

OrchestratorCalls ==
    {"init", "setLanguage", "updatePage",
     "system.init", "system.setLanguage", "system.refreshLanguageState"}

\* C6: no call of init, setLanguage, updatePage or of the system's init,
\* setLanguage, refreshLanguageState ever throws or rejects.
C6_NoExceptionEscapes ==
    /\ escaped \cap OrchestratorCalls = {}
    /\ settled.fn \in OrchestratorCalls => settled.outcome = "ok"

\* The system's setLanguage('ar') has ended with no tree for the current
\* language (the fetch failed, updatePage found the tree missing) while a
\* listener that throws is subscribed to the engine's 'error' event.
C6_Witness ==
    /\ "error" \in DOMAIN engine.eventListeners
    /\ settled.fn = "system.setLanguage" /\ settled.requested = "ar"
    /\ engine.currentLanguage = "ar"
    /\ "ar" \notin DOMAIN engine.translations
    /\ frames = {}

LoadEndedRight(outcome, value, requested, code, n) ==
    /\ n <= 2
    /\ code \in {requested, fallbackLanguage}
    /\ outcome = "ok" => value = FileOf(code)
    /\ outcome = "throw" => code = fallbackLanguage
    /\ requested # fallbackLanguage /\ outcome = "throw" => n = 2

\* C7: a load has one fetch outstanding until it ends; it has issued one
\* fetch for the requested code or, after that failed, a second one for
\* the fallback code; it ends with the tree of the code fetched last, and
\* it fails only when the fallback code's fetch failed.
C7_LoadRetriesOnceAgainstFallback ==
    /\ \A f \in frames : f.fn = "loadLanguage" =>
          /\ f.pc = "fetch"
          /\ f.fetches \in 1..2
          /\ f.fetches = 1 => f.code = f.requested
          /\ f.fetches = 2 => f.code = fallbackLanguage /\ f.requested # fallbackLanguage
    /\ \A i \in DOMAIN microtasks : microtasks[i].from.fn = "loadLanguage" =>
          LoadEndedRight(microtasks[i].outcome, microtasks[i].value,
                         microtasks[i].from.requested, microtasks[i].from.code, 2)
    /\ settled.fn = "loadLanguage" =>
          LoadEndedRight(settled.outcome, settled.value, settled.requested,
                         settled.code, settled.fetches)

\* A load of 'ar' called from outside has failed after two fetches, the
\* second for the fallback code.
C7_Witness ==
    /\ settled.fn = "loadLanguage" /\ settled.outcome = "throw"
    /\ settled.requested = "ar" /\ settled.code = fallbackLanguage
    /\ settled.fetches = 2

FreshIn(cache, t, c) ==
    c \in DOMAIN cache /\ t - cache[c].timestamp < cacheExpiry

\* C8: loadLanguage(c) called with an unexpired cache entry for c ends at
\* once with the cached tree and issues no fetch; called with no entry or
\* an expired one it issues a fetch for c.  Every write of a cache entry
\* is the tree of a fetch that has just succeeded, stamped with the current
\* time, and that tree is what the load returns.
C8_CacheHitOrFetch ==
    [][/\ (OutsideCall /\ calls'.fn = "loadLanguage") =>
            IF FreshIn(engine.cache, now, calls'.request)
            THEN /\ Fetching(frames') = Fetching(frames)
                 /\ settled'.fn = "loadLanguage" /\ settled'.outcome = "ok"
                 /\ settled'.value = engine.cache[calls'.request].data
                 /\ settled'.fetches = 0
            ELSE \E g \in Fetching(frames') \ Fetching(frames) :
                    g.code = calls'.request /\ g.parent = 0
       /\ \A c \in DOMAIN engine'.cache :
            (c \notin DOMAIN engine.cache \/ engine'.cache[c] # engine.cache[c]) =>
               /\ engine'.cache[c] = [data |-> FileOf(c), timestamp |-> now]
               /\ \E f \in Fetching(frames) :
                     /\ f.code = c
                     /\ \A g \in frames' : g.id # f.id
                     /\ f.parent = 0 => settled'.outcome = "ok" /\ settled'.value = FileOf(c)
                     /\ f.parent > 0 =>
                           /\ microtasks' # <<>>
                           /\ microtasks'[Len(microtasks')].to = f.parent
                           /\ microtasks'[Len(microtasks')].value = FileOf(c)]_vars

\* loadLanguage('en') called from outside has ended with the tree and
\* without a fetch, from the entry an earlier load put in the cache.
C8_Witness ==
    /\ settled.fn = "loadLanguage" /\ settled.outcome = "ok"
    /\ settled.requested = "en" /\ settled.fetches = 0
    /\ settled.value = EnDoc

\* C9: a switch to a code whose cache entry is older than the expiry issues
\* a fetch for that code.
C9_ExpiredEntryRefetchedOnSwitch ==
    [][(/\ OutsideCall
        /\ \/ calls'.fn = "setLanguage"
           \/ calls'.fn = "system.setLanguage" /\ system.engine
        /\ calls'.request \in DOMAIN engine.cache
        /\ ~FreshIn(engine.cache, now, calls'.request))
         => \E g \in Fetching(frames') \ Fetching(frames) : g.code = calls'.request]_vars

\* C11: a transition of the toggle widget makes the orchestrator run, in
\* this order, the load of the code, the apply pass, the direction update
\* and the persistence: once the system's init has ended the widget exists
\* and the event its transition raises is the one the system answers with
\* engine.setLanguage; within a switch the apply pass runs when the load has
\* ended, and the preference is written only in the step after the apply
\* pass, the one that updates the direction.
C11_TransitionRunsLoadApplyDirectionPersist ==
    [][/\ (settled'.fn = "system.init" /\ settled.fn # "system.init") =>
            /\ system'.toggle
            /\ LanguageToggle_toggleLanguage_event =
                   MarlnLocalizationSystem_connectComponents_event
       /\ storage' # storage =>
            \E f \in frames : Resumes(f) /\ f.fn = "setLanguage" /\ f.pc = "awaitUpdate"
       /\ \A f \in frames' :
            (f.fn = "setLanguage" /\ f.pc = "awaitUpdate" /\ f \notin frames) =>
               /\ storage' = storage
               /\ \A g \in frames' : ~(g.fn = "loadLanguage" /\ g.parent = f.id)]_vars

\* C12: a switch requested while another switch's load is pending issues
\* its own fetch and leaves the pending one running; and when the load that
\* resolves last resolves with its own code's tree (the other code's load
\* having succeeded before it), the apply pass of its switch writes that
\* code's tree, so that is what the page shows in the end.
C12_LastResolvedLoadIsRendered ==
    [][/\ (/\ OutsideCall /\ Fetching(frames) # {}
            /\ calls'.request \notin DOMAIN engine.translations)
          => /\ Fetching(frames) \subseteq Fetching(frames')
             /\ \E g \in Fetching(frames') \ Fetching(frames) : g.code = calls'.request
       /\ \A f \in frames :
            (/\ Resumes(f) /\ f.fn = "setLanguage" /\ f.pc = "awaitLoad"
             /\ Head(microtasks).outcome = "ok"
             /\ Head(microtasks).value = FileOf(f.code)
             /\ Fetching(frames) = {}
             /\ Len(microtasks) = 1
             /\ getActiveLanguages \ {f.code} \subseteq DOMAIN engine.translations)
            => applied' = f.code]_vars

\* The language of the text on the page: that of the tree the last apply
\* pass wrote, the default language of the markup before any pass.
Rendered == IF applied = NoValue THEN defaultLanguage ELSE applied

\* C13: whenever no load and no switch is in flight, the engine's current
\* language is the language of the tree last applied to the page, and the
\* code last announced to the widget, if any, is that language too.
C13_IdleWidgetEngineAndPageAgree ==
    (frames = {} /\ microtasks = <<>>) =>
        /\ engine.currentLanguage = Rendered
        /\ notified.to # NullLang => notified.to = engine.currentLanguage

(***************************************************************************)
(* Properties of SimpleLanguageToggle (SpecSimple).                        *)
(***************************************************************************)
\* C10: every activation of the toggle (a click, or a keydown of Enter or
\* Space) flips the widget between 'en' and 'ar' and dispatches one
\* languageChanged event whose from is the language before the activation
\* and whose to is the language after it.
C10_ActivationFlipsAndNotifies ==
    [][activations' = activations + 1
         => /\ simple.currentLanguage \in {"en", "ar"}
            /\ simple'.currentLanguage \in {"en", "ar"} \ {simple.currentLanguage}
            /\ page'.button.currentLang = simple'.currentLanguage
            /\ dispatched' = Append(dispatched, [from |-> simple.currentLanguage,
                                                 to |-> simple'.currentLanguage])]_vars

(***************************************************************************)
(* Properties of the apply passes (SpecApply).                             *)
(***************************************************************************)
\* The elements as the English pass leaves them on the page as loaded: what
\* SimpleLanguageToggle's init shows with English stored, and what the
\* engine's updatePage writes with English current.
EnglishElements ==
    SimpleLanguageToggle_init_then(
        [SimpleWorld EXCEPT !.simple.currentLanguage = "en",
                            !.page = NewPage(page.present, page.container, page.header)]
      ).page.els

EnglishDocument ==
    LocalizationEngine_updatePage(
        [World EXCEPT !.engine.currentLanguage = "en",
                      !.doc = [NewDocument EXCEPT !.languageListeners = 1]]
      ).w.doc

\* C14: after a switch from English to Arabic and back to English every
\* marker-targeted element holds what it held in English before, and the
\* document's direction attribute is 'ltr': for SimpleLanguageToggle after
\* two completed activations starting in English, for the engine after
\* setLanguage('ar') then setLanguage('en').
C14_RoundTripRestoresEnglish ==
    /\ (/\ simple.pc = "ready" /\ activations = 2
        /\ Len(dispatched) = 2 /\ dispatched[1].from = "en")
          => page.els = EnglishElements /\ page.lang = "en"
    /\ (/\ engine.isInitialized /\ calls.made = 2
        /\ frames = {} /\ microtasks = <<>>
        /\ notified = [from |-> "ar", to |-> "en"])
          => /\ doc.els = EnglishDocument.els
             /\ doc.dir = "ltr" /\ doc.lang = "en"

\* C15: an apply pass is idempotent: from every state, running
\* SimpleLanguageToggle.applyTranslations (for either language) or
\* LocalizationEngine.updatePage twice in succession leaves the page exactly
\* as one run leaves it (text, placeholders, values, attributes, classes),
\* and the second run ends as the first did.
C15_ApplyIsIdempotent ==
    /\ \A language \in {"en", "ar"} :
          LET once == SimpleLanguageToggle_applyTranslations(SimpleWorld, language)
              twice == SimpleLanguageToggle_applyTranslations(once.sw, language)
          IN  twice.sw.page = once.sw.page /\ twice.threw = once.threw
    /\ LET once == LocalizationEngine_updatePage(World)
           twice == LocalizationEngine_updatePage(once.w)
       IN  twice.w.doc = once.w.doc /\ twice.threw = once.threw

C15_Witness ==
    /\ simple.pc = "ready" /\ activations = 1 /\ simple.currentLanguage = "ar"
    /\ 1 \in page.present /\ page.els[1].textContent = <<"Marhaba">>
    /\ SimpleLanguageToggle_applyTranslations(SimpleWorld, "ar").sw.page = page

\* What a marker's target holds: the placeholder for a placeholder marker
\* and for a text marker on an element with a placeholder attribute, the
\* value for a value marker, the text content otherwise.
SimpleTarget(el, st) ==
    CASE el.marker = "data-i18n-placeholder" -> st.placeholder
      [] el.marker = "data-i18n-value" -> st.value
      [] el.hasPlaceholder -> st.placeholder
      [] OTHER -> st.textContent

EngineTarget(el, st) ==
    IF el.tag \in {"INPUT", "TEXTAREA"} THEN st.placeholder ELSE st.textContent

\* C16: after an apply pass that ran to its end, every element carrying a
\* marker whose key resolves to a string leaf of the pass's tree holds
\* exactly that leaf in the marker's target, whatever the leaf is: for
\* SimpleLanguageToggle once ready (its last pass was for currentLanguage),
\* for the engine once updatePage has applied the current language's tree.
C16_HitWritesTheLeaf ==
    /\ (/\ simple.pc = "ready"
        /\ simple.currentLanguage \in DOMAIN simple.translations
        /\ ~SimpleLanguageToggle_applyTranslations(SimpleWorld, simple.currentLanguage).threw)
          => \A n \in page.present :
                LET leaf == OwnWalk(simple.translations[simple.currentLanguage],
                                    split(SimpleElements[n].key))
                IN  leaf.t = "string" => SimpleTarget(SimpleElements[n], page.els[n]) = leaf.s
    /\ (/\ applied # NoValue /\ applied = engine.currentLanguage
        /\ applied \in DOMAIN engine.translations)
          => \A i \in DOMAIN PageElements :
                LET leaf == OwnWalk(engine.translations[applied], split(PageElements[i].i18n))
                IN  (PageElements[i].marked /\ leaf.t = "string")
                        => EngineTarget(PageElements[i], doc.els[i]) = leaf.s

\* A marker's key misses when it resolves to no string leaf of the tree.
SimpleMiss(n, tree) == OwnWalk(tree, split(SimpleElements[n].key)).t # "string"

EngineMiss(i, tree) == OwnWalk(tree, split(PageElements[i].i18n)).t # "string"

\* C17: an apply pass leaves every element whose marker's key misses as it
\* was and surfaces no error: an activation of the toggle lets no exception
\* escape and changes no element whose key misses in the loaded trees, and
\* the updatePage of a setLanguage call changes no marked element whose key
\* misses in the tree it applies.
C17_MissLeavesElementAndPassGoesOn ==
    [][/\ activations' = activations + 1 =>
            /\ uncaught' = uncaught
            /\ \A n \in page.present :
                  (\A l \in DOMAIN simple.translations : SimpleMiss(n, simple.translations[l]))
                      => page'.els[n] = page.els[n]
       /\ (calls'.made = calls.made + 1 /\ applied' \in DOMAIN engine.translations) =>
            /\ escaped' = escaped
            /\ \A i \in DOMAIN PageElements :
                  (PageElements[i].marked /\ EngineMiss(i, engine.translations[applied']))
                      => doc'.els[i] = doc.els[i]]_vars

\* C18: a pass with another tree overwrites every target the pass before
\* it set: when an activation of the toggle runs to its end, or a
\* setLanguage call applies another language's tree, no marked element
\* whose target held the (non-empty) leaf of the tree applied before still
\* holds that leaf afterwards.
C18_OtherTreeOverwritesEveryTarget ==
    [][/\ (/\ activations' = activations + 1 /\ page.button.listeners = 1
           /\ Len(dispatched') = Len(dispatched) + 1) =>
            \A n \in page.present :
               LET was == OwnWalk(simple.translations[simple.currentLanguage],
                                  split(SimpleElements[n].key))
               IN  (/\ was.t = "string" /\ was.s # <<>>
                    /\ SimpleTarget(SimpleElements[n], page.els[n]) = was.s)
                      => SimpleTarget(SimpleElements[n], page'.els[n]) # was.s
       /\ (/\ calls'.made = calls.made + 1 /\ applied # NoValue /\ applied' # applied
           /\ applied' \in DOMAIN engine.translations) =>
            \A i \in DOMAIN PageElements :
               LET was == OwnWalk(engine.translations[applied], split(PageElements[i].i18n))
               IN  (/\ PageElements[i].marked /\ was.t = "string" /\ was.s # <<>>
                    /\ EngineTarget(PageElements[i], doc.els[i]) = was.s)
                      => EngineTarget(PageElements[i], doc'.els[i]) # was.s]_vars

\* Every string an assignment of a value found in the tree can leave in a
\* target.
RECURSIVE TreeValues(_)
TreeValues(node) ==
    IF node.t = "object"
    THEN {DomString(node)} \cup UNION {TreeValues(node.m[k]) : k \in DOMAIN node.m}
    ELSE {DomString(node)}

TargetFields == {"textContent", "placeholder", "value"}

\* C19: a pass writes from one tree only, the current language's: in every
\* step, under every interleaving of setLanguage calls and load completions,
\* each text, placeholder or value that changes on the engine's page is a
\* value of the tree held for the engine's current language, and each that
\* changes on SimpleLanguageToggle's page, in a step that runs one pass (one
\* listener on the button), is a value of the tree of its current language.
C19_OnePassOneTree ==
    [][/\ \A i \in DOMAIN PageElements : \A a \in TargetFields :
              doc'.els[i][a] # doc.els[i][a] =>
                  /\ engine'.currentLanguage \in DOMAIN engine'.translations
                  /\ doc'.els[i][a] \in TreeValues(engine'.translations[engine'.currentLanguage])
       /\ \A n \in DOMAIN SimpleElements : \A a \in TargetFields :
              (page.button.listeners <= 1 /\ page'.els[n][a] # page.els[n][a]) =>
                  /\ simple'.currentLanguage \in DOMAIN simple'.translations
                  /\ page'.els[n][a] \in TreeValues(simple'.translations[simple'.currentLanguage])]_vars

\* Two switches overlap: the Arabic tree arrived first and was applied while
\* the English file is still being fetched.
C19_Witness ==
    /\ calls.made = 2 /\ applied = "ar"
    /\ \E f \in Fetching(frames) : f.code = "en"
    /\ doc.els[1].textContent = <<"Marhaba">>
    /\ doc.els[4].textContent = <<"Hawl">>

(***************************************************************************)
(* Properties of the Translation Store.                                    *)
(***************************************************************************)
\* C20: the tree the engine holds for a code, in its translations map and
\* in its cache, is the whole document of that code's own resource: never
\* another code's tree (a fallback retry files the fallback's tree under the
\* fallback's code) and never a combination of two documents.
C20_StoreKeepsEachTreeUnderItsCode ==
    /\ \A c \in DOMAIN engine.translations :
          c \in getActiveLanguages /\ engine.translations[c] = FileOf(c)
    /\ \A c \in DOMAIN engine.cache :
          c \in getActiveLanguages /\ engine.cache[c].data = FileOf(c)

\* A load of Arabic that fell back: the English document is held under
\* 'en', nothing under 'ar'.
C20_Witness ==
    /\ settled.fn = "loadLanguage" /\ settled.outcome = "ok"
    /\ settled.requested = "ar" /\ settled.code = fallbackLanguage
    /\ settled.fetches = 2
    /\ "ar" \notin DOMAIN engine.translations /\ "ar" \notin DOMAIN engine.cache
    /\ fallbackLanguage \in DOMAIN engine.translations
    /\ engine.translations[fallbackLanguage] = FileOf(fallbackLanguage)
    /\ engine.cache[fallbackLanguage].data = FileOf(fallbackLanguage)

(***************************************************************************)
(* Properties of startup and persistence.                                  *)
(***************************************************************************)
\* The code the stored preference (storage key, then cookie), the URL
\* parameter and the registry default give, in that order, a channel
\* counting when it names a supported code.
InitialCode(st) ==
    IF st.localStorage \in SUPPORTED_LANGUAGES THEN st.localStorage
    ELSE IF st.cookie \in SUPPORTED_LANGUAGES THEN st.cookie
    ELSE IF st.url \in SUPPORTED_LANGUAGES THEN st.url
    ELSE defaultLanguage

\* init goes on after its load of the default language.
InitChooses ==
    \E f \in frames : /\ Resumes(f) /\ f.fn = "init" /\ f.pc = "awaitLoad"
                       /\ Head(microtasks).outcome = "ok"

\* C21: when init picks the initial code, after loading the default
\* language, the engine's current language becomes the stored preference
\* if it names a supported code, otherwise the URL parameter if it names a
\* supported code, otherwise the registry default.
C21_InitialCodeByPriority ==
    [][InitChooses => engine'.currentLanguage = InitialCode(storage)]_vars

\* C22: once the engine's init has reported ready, the tree of the current
\* (initial) language is loaded and a synchronization pass with it has run,
\* whichever channel or the default supplied the code.
C22_ReadyMeansLoadedAndApplied ==
    engine.isInitialized =>
        /\ engine.currentLanguage \in DOMAIN engine.translations
        /\ applied = engine.currentLanguage

\* C23: a language change that completes leaves its code in every
\* persistence channel: when a setLanguage call runs to its end the storage
\* key, the cookie and the URL parameter hold the code it switched to, and
\* when an activation of SimpleLanguageToggle's toggle runs to its end its
\* storage key, the cookie and the URL parameter hold the new language.
C23_ChangeIsPersistedEverywhere ==
    [][/\ \A f \in frames :
            (/\ Resumes(f) /\ f.fn = "setLanguage" /\ f.pc = "awaitUpdate"
             /\ escaped' = escaped /\ notified'.to = f.code) =>
                /\ storage'.localStorage = f.code
                /\ storage'.cookie = f.code
                /\ storage'.url = f.code
       /\ (/\ activations' = activations + 1 /\ page.button.listeners = 1
           /\ Len(dispatched') = Len(dispatched) + 1) =>
                /\ preference' = simple'.currentLanguage
                /\ storage'.cookie = simple'.currentLanguage
                /\ storage'.url = simple'.currentLanguage]_vars

\* C24: the three persistence writes are independent: when a setLanguage
\* call runs to its end in a browser where some channel's write throws, the
\* switch is still announced and every channel whose write does not throw
\* holds the code switched to.
C24_ChannelsIndependentlyBestEffort ==
    [][\A f \in frames :
          (Resumes(f) /\ f.fn = "setLanguage" /\ f.pc = "awaitUpdate") =>
              /\ escaped' = escaped
              /\ notified'.to = f.code
              /\ \A ch \in PersistenceChannels \ storage.blocked :
                    storage'[ch] = f.code]_vars

\* C25: a setLanguage call that runs to its end announces languageChanged
\* once, with from = the language that was current when the call was made
\* and to = the code it switched to, also when another call was made while
\* its load was pending.
C25_NotificationCarriesFromAndTo ==
    [][\A f \in frames :
          (Resumes(f) /\ f.fn = "setLanguage" /\ f.pc = "awaitUpdate") =>
              notified' = [from |-> f.before, to |-> f.code]]_vars

(***************************************************************************)
(* Properties of direction, markup and refresh.                            *)
(***************************************************************************)
\* C26: when a setLanguage call has run to its end, the document's dir
\* attribute is 'rtl' exactly when the 'rtl' class is on the document root
\* and on the body, and exactly when the registry marks the current
\* language as right-to-left.
C26_RtlAttributeClassAndRegistryAgree ==
    [][\A f \in frames :
          (/\ Resumes(f) /\ f.fn = "setLanguage" /\ f.pc = "awaitUpdate"
           /\ escaped' = escaped) =>
              /\ (doc'.dir = "rtl") <=> isRTL(engine'.currentLanguage)
              /\ (<<"rtl">> \in doc'.htmlClass) <=> isRTL(engine'.currentLanguage)
              /\ (<<"rtl">> \in doc'.bodyClass) <=> isRTL(engine'.currentLanguage)]_vars

\* The string holds an opening angle bracket with a closing one after it.
ContainsMarkup(str) ==
    \E i \in DOMAIN str : \E j \in DOMAIN str : i < j /\ str[i] = "<" /\ str[j] = ">"

\* C27: after a pass that ran to its end, every element with a text marker
\* whose key resolves to a non-empty string leaf, and whose target is its
\* content, holds the leaf as parsed markup when the leaf contains
\* angle-bracket markup and as plain text otherwise: on
\* SimpleLanguageToggle's page and on the engine's.
C27_MarkupParsedElsePlainText ==
    /\ (/\ simple.pc = "ready"
        /\ simple.currentLanguage \in DOMAIN simple.translations
        /\ ~SimpleLanguageToggle_applyTranslations(SimpleWorld, simple.currentLanguage).threw)
          => \A n \in page.present :
                LET leaf == OwnWalk(simple.translations[simple.currentLanguage],
                                    split(SimpleElements[n].key))
                IN  (/\ SimpleElements[n].marker = "data-i18n"
                     /\ ~SimpleElements[n].hasPlaceholder
                     /\ leaf.t = "string" /\ leaf.s # <<>>)
                        => /\ page.els[n].textContent = leaf.s
                           /\ page.els[n].parsed = ContainsMarkup(leaf.s)
    /\ (/\ applied # NoValue /\ applied = engine.currentLanguage
        /\ applied \in DOMAIN engine.translations)
          => \A i \in DOMAIN PageElements :
                LET leaf == OwnWalk(engine.translations[applied], split(PageElements[i].i18n))
                IN  (/\ PageElements[i].marked
                     /\ PageElements[i].tag \notin {"INPUT", "TEXTAREA"}
                     /\ leaf.t = "string" /\ leaf.s # <<>>)
                        => /\ doc.els[i].textContent = leaf.s
                           /\ doc.els[i].parsed = ContainsMarkup(leaf.s)

ListenersOfEmitter(emitter, event) ==
    ListenersOf(IF emitter = "engine" THEN engine.eventListeners
                ELSE system.eventListeners, event)

SomeListenerThrows(listeners) ==
    \E k \in 1..Len(listeners) : listeners[k].throws

\* C29: every emit call of a step calls each listener registered for its
\* event once, in registration order, whether or not one of them throws,
\* and does not throw itself; an emission of 'error' one of whose listeners
\* throws is not followed, in the emitter that made it, by an emission of
\* 'error' that the throw caused: the next emission of that emitter in the
\* step, if there is one, is of another event.
C29_EmitCallsEveryListenerOnce ==
    \A i \in 1..Len(delivered) :
        LET d == delivered[i]
            listeners == ListenersOfEmitter(d.emitter, d.event)
        IN  /\ d.called = [k \in 1..Len(listeners) |-> k]
            /\ ~d.threw
            /\ d.event = "error" /\ SomeListenerThrows(listeners)
                  => \A j \in (i + 1)..Len(delivered) :
                         delivered[j].emitter = d.emitter
                             => delivered[j].event # "error"

\* An 'error' emission to two listeners the first of which throws.
C29_Witness ==
    \E i \in 1..Len(delivered) :
        LET d == delivered[i]
            listeners == ListenersOfEmitter(d.emitter, d.event)
        IN  /\ d.event = "error"
            /\ Len(listeners) = 2
            /\ listeners[1].throws
            /\ d.called = <<1, 2>>

(***************************************************************************)
(* Properties of SimpleLanguageToggle without its translation files.       *)
(***************************************************************************)
\* loadTranslations has rejected: no path served both files.
SimpleLoadFailed(s) == s.pc = "ready" /\ DOMAIN s.translations = {}

C31_RemoveRestoresTextAndMarkers ==
    (stateOps # <<>> /\ ~LoadingOn /\ ~ErrorOn)
        => /\ element.textContent = stateOps[1].found
           /\ element.attributes = NoAttributes

\* The calls that end a burst: the last call made, and every call whose
\* wait had elapsed when the next call arrived.
BurstEnds ==
    LET made == debouncer.calls
    IN  SelectSeq([i \in 1..Len(made) |-> i],
                  LAMBDA i : \/ i = Len(made)
                             \/ made[i + 1].at >= made[i].at + debouncer.wait)

\* The bursts that are over: followed by a call, or their wait is past.
BurstsOver ==
    {k \in 1..Len(BurstEnds) :
        \/ BurstEnds[k] < Len(debouncer.calls)
        \/ debouncer.calls[BurstEnds[k]].at + debouncer.wait < debouncer.clock}

InvokedOncePerBurst ==
    /\ Len(debouncer.invoked) <= Len(BurstEnds)
    /\ BurstsOver \subseteq 1..Len(debouncer.invoked)
    /\ \A k \in 1..Len(debouncer.invoked) :
          LET last == debouncer.calls[BurstEnds[k]]
          IN  /\ debouncer.invoked[k].args = last.args
              /\ debouncer.invoked[k].at >= last.at + debouncer.wait

C33_WidgetStateIsConsistent ==
    /\ simple.currentLanguage \in {"en", "ar"}
    /\ page.button.exists
         => /\ page.button.currentLang = simple.currentLanguage
            /\ page.button.options =
                  (IF simple.currentLanguage = "ar"
                   THEN <<{"inactive"}, {"active"}>>
                   ELSE <<{"active"}, {"inactive"}>>)
            /\ page.button.slideRight = (simple.currentLanguage = "ar")

(***************************************************************************)
(* Properties of overlapping switches, wiring and teardown.                *)
(***************************************************************************)
\* C34: once switches have been requested, one of them at least has
\* completed (it has announced its change) and every one of them has run to
\* its end (no call suspended, no continuation queued), each persistence
\* channel holds the engine's current language: no switch that completed
\* late has stored a code that is not the current language any more.
C34_PersistedIsCurrentWhenQuiescent ==
    (/\ calls.made > 0
     /\ notified.to # NullLang
     /\ frames = {}
     /\ microtasks = <<>>)
        => /\ storage.localStorage = engine.currentLanguage
           /\ storage.cookie = engine.currentLanguage
           /\ storage.url = engine.currentLanguage

\* The call of system.init is over: it was made and no frame of it is left.
SystemInitOver ==
    /\ system.engine
    /\ \A f \in frames : f.fn # "system.init"

\* C35: when system.init is over on a page whose stored preference is a
\* supported code other than the default language, and nothing else has
\* been called, the system's toggle displays that stored code.
C35_ToggleShowsSavedPreference ==
    (/\ SystemInitOver
     /\ calls.made = 0
     /\ storage.localStorage \in SUPPORTED_LANGUAGES \ {defaultLanguage})
        => system.toggleLanguage = storage.localStorage

\* C39: new LanguageToggle() does not throw, so that once system.init is
\* over, and nothing else has been called, the system holds a toggle in its
\* initial state, displaying 'en', and is initialised.
C39_ToggleIsConstructed ==
    (SystemInitOver /\ calls.made = 0)
        => /\ ~LanguageToggle_constructor.threw
           /\ system.toggle
           /\ system.toggleLanguage = LanguageToggle_currentLanguage
           /\ system.isInitialized

\* The lang-<code> classes on the document root.
LangClassesOnRoot == doc.htmlClass \ {<<"rtl">>}

\* C36: when an apply pass has run for the current language and every call
\* has run to its end, the document root carries lang-<c> for the current
\* language c and no other lang-<d> class.
C36_RootCarriesCurrentLangClassOnly ==
    (/\ applied # NoValue
     /\ applied = engine.currentLanguage
     /\ frames = {}
     /\ microtasks = <<>>)
        => LangClassesOnRoot = {LangClass(engine.currentLanguage)}

\* C38: from destroy() on, and as long as nothing else is called, the engine
\* holds no loaded tree and no cached tree, has no listeners, is not
\* initialised and has the default language as current, whatever load or
\* switch suspended at the time of the destroy completes afterwards.
C38_DestroyedStaysReset ==
    calls.fn = "destroy"
        => /\ engine.translations = EmptyMap
           /\ engine.cache = EmptyMap
           /\ engine.eventListeners = EmptyMap
           /\ ~engine.isInitialized
           /\ engine.currentLanguage = defaultLanguage

\* The engine switches a step starts: the setLanguage frames of the state
\* after it whose call was not there before.
SwitchesStarted ==
    {g \in frames' : g.fn = "setLanguage" /\ g.id \notin {f.id : f \in frames}}

ChangeNotifications(log) ==
    {i \in 1..Len(log) : log[i].event = "languageChanged"}

====
